---- MODULE Spec2Model ----
(***************************************************************************)
(* Model of the reptile-commerce data-cleaning pipeline:                   *)
(*   src/newegg/newegg_process_data.py   (NeweggDataProcessor)             *)
(*   src/sylvane/sylvane_process_fixed.py (SylvaneDataProcessor)           *)
(* Text is modelled by TLA+ strings, Python values by tagged records, and  *)
(* a call that may raise by a result record Ok(v) / Raise(e).              *)
(***************************************************************************)
EXTENDS Integers, Sequences, FiniteSets, TLC

VARIABLES
    site,             \* which script runs: "newegg" or "sylvane"
    pc,               \* position of main() / of the handler in progress
    raw_data,         \* self.raw_data
    processed_data,   \* self.processed_data
    discarded_count,  \* self.discarded_count (Newegg only)
    category_count,   \* local tally of process_all (Newegg only)
    idx,              \* loop position of process_all / insert_data
    valid_records,    \* local list of process_all
    exc,              \* exception that left the call in progress, or NoExc
    json_file,        \* content of the processed-JSON output file
    db,               \* committed state of the products table
    txn,              \* the connection's open transaction (its own view)
    conn,             \* psycopg2 connection: "none", "open", "broken", "closed"
    clock,            \* wall clock (datetime.now() and CURRENT_TIMESTAMP)
    runs,             \* number of script runs started so far
    input,            \* raw record handed to a direct call of a function
    output,           \* what that call returned or raised
    max_pages,        \* SylvaneScraper.max_pages
    page_num,         \* list page the pagination loop is at
    pages_visited,    \* list pages the loop has read so far in this call
    all_products,     \* local list of scrape_category (Newegg)
    all_links,        \* local list of scrape_all_pages (Sylvane)
    unique_links,     \* local list of scrape_all_pages (Sylvane)
    products_data     \* SylvaneScraper.products_data

vars == << site, pc, raw_data, processed_data, discarded_count,
           category_count, idx, valid_records, exc, json_file, db, txn,
           conn, clock, runs, input, output, max_pages, page_num,
           pages_visited, all_products, all_links, unique_links,
           products_data >>

-----------------------------------------------------------------------------
(* Bounds of the model *)

MaxTextLen == 4      \* length of the enumerated price / field texts
MaxTitleWords == 2   \* words of the enumerated titles
MaxBatch == 2        \* records per input file
MaxRuns == 2         \* runs of the script against the same database

-----------------------------------------------------------------------------
(* Python values *)

None == [t |-> "None"]
PyInt(v) == [t |-> "int", v |-> v]
PyStr(s) == [t |-> "str", s |-> s]
\* a non-negative float num / den, den a power of ten, in lowest such terms
PyFloat(num, den) == [t |-> "float", num |-> num, den |-> den]

Ok(v) == [ok |-> TRUE, val |-> v]
Raise(e) == [ok |-> FALSE, exc |-> e]

\* Python truthiness of a model value (None, 0, 0.0 and "" are falsy)
Truthy(v) ==
    CASE v.t = "None" -> FALSE
      [] v.t = "int" -> v.v # 0
      [] v.t = "float" -> v.num # 0
      [] v.t = "str" -> v.s # ""
      [] OTHER -> TRUE

-----------------------------------------------------------------------------
(* Text helpers (str methods and the character classes of re) *)

Char(s, i) == SubSeq(s, i, i)

Digits == {"0", "1", "2", "3", "4", "5", "6", "7", "8", "9"}
Whitespace == {" ", "\n", "\r", "\t"}

DigitVal(c) ==
    CASE c = "0" -> 0 [] c = "1" -> 1 [] c = "2" -> 2 [] c = "3" -> 3
      [] c = "4" -> 4 [] c = "5" -> 5 [] c = "6" -> 6 [] c = "7" -> 7
      [] c = "8" -> 8 [] c = "9" -> 9

UpperToLower ==
    [A |-> "a", B |-> "b", C |-> "c", D |-> "d", E |-> "e", F |-> "f",
     G |-> "g", H |-> "h", I |-> "i", J |-> "j", K |-> "k", L |-> "l",
     M |-> "m", N |-> "n", O |-> "o", P |-> "p", Q |-> "q", R |-> "r",
     S |-> "s", T |-> "t", U |-> "u", V |-> "v", W |-> "w", X |-> "x",
     Y |-> "y", Z |-> "z"]

LowerChar(c) == IF c \in DOMAIN UpperToLower THEN UpperToLower[c] ELSE c

\* str.lower(), character by character (split in halves)
RECURSIVE Lower(_)
Lower(s) ==
    IF Len(s) = 0 THEN ""
    ELSE IF Len(s) = 1 THEN LowerChar(s)
    ELSE Lower(SubSeq(s, 1, Len(s) \div 2))
         \o Lower(SubSeq(s, Len(s) \div 2 + 1, Len(s)))

\* sub occurs in s at position i
OccursAt(s, sub, i) ==
    i >= 1 /\ i + Len(sub) - 1 <= Len(s) /\ SubSeq(s, i, i + Len(sub) - 1) = sub

\* sub in s
Contains(s, sub) == \E i \in 1..(Len(s) - Len(sub) + 1) : OccursAt(s, sub, i)

\* s.startswith(p)
StartsWith(s, p) == OccursAt(s, p, 1)

\* s.find(sub) from position i on, as a position; 0 when there is none
Find(s, sub, i) ==
    IF \E j \in i..Len(s) : OccursAt(s, sub, j)
    THEN CHOOSE j \in i..Len(s) :
             OccursAt(s, sub, j) /\ \A q \in i..(j - 1) : ~OccursAt(s, sub, q)
    ELSE 0

\* s.replace(old, new), old non-empty: leftmost non-overlapping occurrences
RECURSIVE ReplaceFrom(_, _, _, _)
ReplaceFrom(s, old, new, i) ==
    LET at(j) ==
            IF j = 0 THEN SubSeq(s, i, Len(s))
            ELSE SubSeq(s, i, j - 1) \o new
                 \o ReplaceFrom(s, old, new, j + Len(old))
    IN  at(Find(s, old, i))

Replace(s, old, new) == ReplaceFrom(s, old, new, 1)

\* first position >= i whose character is not in set S (Len(s)+1 if none)
RunEnd(s, i, S) ==
    CHOOSE j \in i..(Len(s) + 1) :
        /\ \A q \in i..(j - 1) : Char(s, q) \in S
        /\ (j = Len(s) + 1 \/ Char(s, j) \notin S)

\* last position <= i whose character is not in set S (0 if none)
RunStart(s, i, S) ==
    CHOOSE j \in 0..i :
        /\ \A q \in (j + 1)..i : Char(s, q) \in S
        /\ (j = 0 \/ Char(s, j) \notin S)

LStrip(s) == SubSeq(s, RunEnd(s, 1, Whitespace), Len(s))
RStrip(s) == SubSeq(s, 1, RunStart(s, Len(s), Whitespace))

\* str.strip()
Strip(s) == RStrip(LStrip(s))

HasDigit(s) == \E i \in 1..Len(s) : Char(s, i) \in Digits

\* the digits of s read as one decimal number, other characters skipped
RECURSIVE DigitsToNat(_, _)
DigitsToNat(s, acc) ==
    IF s = "" THEN acc
    ELSE IF Head(s) \in Digits
         THEN DigitsToNat(Tail(s), 10 * acc + DigitVal(Head(s)))
         ELSE DigitsToNat(Tail(s), acc)

RECURSIVE Pow10(_)
Pow10(k) == IF k = 0 THEN 1 ELSE 10 * Pow10(k - 1)

\* num / den with the common factors of ten removed
RECURSIVE Reduce10(_, _)
Reduce10(num, den) ==
    IF den > 1 /\ num % 10 = 0 THEN Reduce10(num \div 10, den \div 10)
    ELSE PyFloat(num, den)

\* float(s) for s of the shape \d*\.?\d* (what is left of a match of
\* [\d,]+\.?\d* once the commas are removed): ValueError when s has no digit
FloatOf(s) ==
    IF ~HasDigit(s) THEN Raise("ValueError")
    ELSE LET \* dot: position of "." if any
             fracLen(dot) == IF dot <= Len(s) THEN Len(s) - dot ELSE 0
         IN  Ok(Reduce10(DigitsToNat(s, 0),
                         Pow10(fracLen(RunEnd(s, 1, Digits)))))

-----------------------------------------------------------------------------
(* Regular expressions: the fragment of Python's re the scripts use.       *)
(* A pattern is a tree of records; ReAlts lists the ways a pattern can     *)
(* match at a position in the order a backtracking matcher tries them, so  *)
(* that the first entry is the match re.search commits to.                 *)

ReSet(cs) == [k |-> "set", cs |-> cs]              \* [...] or \d, \s
ReNotSet(cs) == [k |-> "nset", cs |-> cs]          \* [^...]
ReLit(s) == [k |-> "lit", s |-> s]                 \* literal text
ReCat(rs) == [k |-> "cat", rs |-> rs]              \* r1 r2 ...
ReAlt(rs) == [k |-> "alt", rs |-> rs]              \* r1 | r2 | ...
ReRep(r, lo, hi) == [k |-> "rep", r |-> r, lo |-> lo, hi |-> hi] \* r{lo,hi}
ReStar(r) == ReRep(r, 0, -1)                       \* r*   (hi -1: no limit)
RePlus(r) == ReRep(r, 1, -1)                       \* r+
ReOpt(r) == ReRep(r, 0, 1)                         \* r?
ReGrp(n, r) == [k |-> "grp", n |-> n, r |-> r]     \* n-th capturing group
ReWordB == [k |-> "wordb"]                         \* \b
ReEnd == [k |-> "end"]                             \* $
ReNotAhead(r) == [k |-> "nla", r |-> r]            \* (?!r)

LowerLetters ==
    {"a", "b", "c", "d", "e", "f", "g", "h", "i", "j", "k", "l", "m", "n",
     "o", "p", "q", "r", "s", "t", "u", "v", "w", "x", "y", "z"}
UpperLetters == DOMAIN UpperToLower
Letters == LowerLetters \cup UpperLetters
WordChars == Letters \cup Digits \cup {"_"}        \* \w
ReDigit == ReSet(Digits)                           \* \d
ReSpace == ReSet(Whitespace)                       \* \s

\* one character against a class; ic is re.IGNORECASE
CharIn(c, cs, ic) ==
    IF ic THEN \E x \in cs : LowerChar(x) = LowerChar(c) ELSE c \in cs

\* text s has literal lit at position i
LitAt(s, i, lit, ic) ==
    /\ i + Len(lit) - 1 <= Len(s)
    /\ IF ic THEN Lower(SubSeq(s, i, i + Len(lit) - 1)) = Lower(lit)
             ELSE SubSeq(s, i, i + Len(lit) - 1) = lit

IsWordAt(s, i) == i >= 1 /\ i <= Len(s) /\ Char(s, i) \in WordChars

NoGroup == [st |-> 0, en |-> 0]                    \* group that did not match

RECURSIVE ReAlts(_, _, _, _, _)
RECURSIVE ReCatFrom(_, _, _, _, _, _)
RECURSIVE ReCatEach(_, _, _, _, _, _)
RECURSIVE ReAltFrom(_, _, _, _, _, _)
RECURSIVE ReRepFrom(_, _, _, _, _, _, _)
RECURSIVE ReRepEach(_, _, _, _, _, _, _, _, _)
RECURSIVE ReGrpEach(_, _, _, _)

\* the matches of pattern r at position i of s, given the groups so far
ReAlts(r, s, i, caps, ic) ==
    CASE r.k = "set" ->
           IF i <= Len(s) /\ CharIn(Char(s, i), r.cs, ic)
           THEN << [pos |-> i + 1, caps |-> caps] >> ELSE << >>
      [] r.k = "nset" ->
           IF i <= Len(s) /\ ~CharIn(Char(s, i), r.cs, ic)
           THEN << [pos |-> i + 1, caps |-> caps] >> ELSE << >>
      [] r.k = "lit" ->
           IF LitAt(s, i, r.s, ic)
           THEN << [pos |-> i + Len(r.s), caps |-> caps] >> ELSE << >>
      [] r.k = "cat" -> ReCatFrom(r.rs, 1, s, i, caps, ic)
      [] r.k = "alt" -> ReAltFrom(r.rs, 1, s, i, caps, ic)
      [] r.k = "rep" -> ReRepFrom(r.r, r.lo, r.hi, s, i, caps, ic)
      [] r.k = "grp" ->
           ReGrpEach(ReAlts(r.r, s, i, caps, ic), 1, r.n, i)
      [] r.k = "wordb" ->
           IF IsWordAt(s, i - 1) # IsWordAt(s, i)
           THEN << [pos |-> i, caps |-> caps] >> ELSE << >>
      [] r.k = "end" ->
           IF i = Len(s) + 1 \/ (i = Len(s) /\ Char(s, i) = "\n")
           THEN << [pos |-> i, caps |-> caps] >> ELSE << >>
      [] r.k = "nla" ->
           IF ReAlts(r.r, s, i, caps, ic) = << >>
           THEN << [pos |-> i, caps |-> caps] >> ELSE << >>

\* rs[j], rs[j+1], ... in sequence
ReCatFrom(rs, j, s, i, caps, ic) ==
    IF j > Len(rs) THEN << [pos |-> i, caps |-> caps] >>
    ELSE ReCatEach(ReAlts(rs[j], s, i, caps, ic), 1, rs, j, s, ic)

ReCatEach(alts, n, rs, j, s, ic) ==
    IF n > Len(alts) THEN << >>
    ELSE ReCatFrom(rs, j + 1, s, alts[n].pos, alts[n].caps, ic)
         \o ReCatEach(alts, n + 1, rs, j, s, ic)

\* rs[j] | rs[j+1] | ...
ReAltFrom(rs, j, s, i, caps, ic) ==
    IF j > Len(rs) THEN << >>
    ELSE ReAlts(rs[j], s, i, caps, ic) \o ReAltFrom(rs, j + 1, s, i, caps, ic)

\* greedy repetition: one more r first, stopping here last
ReRepFrom(r, lo, hi, s, i, caps, ic) ==
    LET more == IF hi = 0 THEN << >>
                ELSE ReRepEach(ReAlts(r, s, i, caps, ic), 1, r, lo, hi, s, i,
                               caps, ic)
        stop == IF lo = 0 THEN << [pos |-> i, caps |-> caps] >> ELSE << >>
    IN  more \o stop

ReRepEach(alts, n, r, lo, hi, s, i, caps, ic) ==
    IF n > Len(alts) THEN << >>
    ELSE (IF alts[n].pos > i
          THEN ReRepFrom(r, IF lo > 0 THEN lo - 1 ELSE 0,
                         IF hi > 0 THEN hi - 1 ELSE hi,
                         s, alts[n].pos, alts[n].caps, ic)
          ELSE << >>)
         \o ReRepEach(alts, n + 1, r, lo, hi, s, i, caps, ic)

\* record group g = [i, pos) in each match of the group's body
ReGrpEach(alts, n, g, i) ==
    IF n > Len(alts) THEN << >>
    ELSE << [pos |-> alts[n].pos,
             caps |-> [alts[n].caps EXCEPT ![g] =
                          [st |-> i, en |-> alts[n].pos]]] >>
         \o ReGrpEach(alts, n + 1, g, i)

NoMatch == [found |-> FALSE]

NoGroups(ng) == [g \in 1..ng |-> NoGroup]

\* the leftmost position in lo..hi at which r matches; 0 when there is none
RECURSIVE ReFirstPos(_, _, _, _, _, _)
ReFirstPos(r, s, lo, hi, ng, ic) ==
    IF lo > hi THEN 0
    ELSE IF lo = hi
         THEN (IF ReAlts(r, s, lo, NoGroups(ng), ic) # << >> THEN lo ELSE 0)
    ELSE LET mid == (lo + hi) \div 2
             or_right(left) ==
                 IF left # 0 THEN left
                 ELSE ReFirstPos(r, s, mid + 1, hi, ng, ic)
         IN  or_right(ReFirstPos(r, s, lo, mid, ng, ic))

\* re.search(r, s[, re.IGNORECASE]) from position i on; ng groups
ReSearchFrom(r, s, i, ng, ic) ==
    LET first(st, alt) ==
            [found |-> TRUE, st |-> st, en |-> alt.pos, caps |-> alt.caps]
        at(st) ==
            IF st = 0 THEN NoMatch
            ELSE first(st, ReAlts(r, s, st, NoGroups(ng), ic)[1])
    IN  at(ReFirstPos(r, s, i, Len(s) + 1, ng, ic))

ReSearch(r, s, ng, ic) == ReSearchFrom(r, s, 1, ng, ic)

\* match.group(0)
Group0(s, m) == SubSeq(s, m.st, m.en - 1)

\* match.group(g) is None
GroupIsNone(m, g) == m.caps[g].st = 0

\* match.group(g), for a group that took part in the match
Group(s, m, g) == SubSeq(s, m.caps[g].st, m.caps[g].en - 1)

\* re.findall(r, s) for a pattern without groups: the matched texts
RECURSIVE ReFindAllFrom(_, _, _, _)
ReFindAllFrom(r, s, i, ic) ==
    LET with(m) ==
            IF ~m.found THEN << >>
            ELSE << Group0(s, m) >>
                 \o ReFindAllFrom(r, s, IF m.en > m.st THEN m.en
                                        ELSE m.en + 1, ic)
    IN  with(ReSearchFrom(r, s, i, 0, ic))

ReFindAll(r, s, ic) == ReFindAllFrom(r, s, 1, ic)

\* re.sub(r, '', s): s without the matches of r (r never matches empty)
RECURSIVE ReRemoveFrom(_, _, _, _)
ReRemoveFrom(r, s, i, ic) ==
    LET with(m) ==
            IF ~m.found THEN SubSeq(s, i, Len(s))
            ELSE SubSeq(s, i, m.st - 1) \o ReRemoveFrom(r, s, m.en, ic)
    IN  with(ReSearchFrom(r, s, i, 0, ic))

ReRemove(r, s, ic) == ReRemoveFrom(r, s, 1, ic)

-----------------------------------------------------------------------------
(* Price normalizer *)

DigitOrComma == Digits \cup {","}

\* every character that is not a digit or a comma
NotDigitOrComma(s) == {Char(s, q) : q \in 1..Len(s)} \ DigitOrComma

\* re.findall(r'\d+\.?\d*', s) from position i on: the pattern without the
\* thousands separator
RECURSIVE FindAllNumbers_without_commas(_, _)
FindAllNumbers_without_commas(s, i) ==
    LET upto(st, c) ==
            << SubSeq(s, st, c - 1) >> \o FindAllNumbers_without_commas(s, c)
        dot(a) == IF a <= Len(s) /\ Char(s, a) = "." THEN a + 1 ELSE a
        from(st) ==                                \* st: next digit
            IF st > Len(s) THEN << >>
            ELSE upto(st, RunEnd(s, dot(RunEnd(s, st, Digits)), Digits))
    IN  from(RunEnd(s, i, {Char(s, q) : q \in 1..Len(s)} \ Digits))

\* re.findall(r'[\d,]+\.?\d*', s) from position i on
RECURSIVE FindAllNumbers(_, _)
FindAllNumbers(s, i) ==
    LET upto(st, c) == << SubSeq(s, st, c - 1) >> \o FindAllNumbers(s, c)
        dot(a) == IF a <= Len(s) /\ Char(s, a) = "." THEN a + 1 ELSE a
        from(st) ==                                \* st: next digit or comma
            IF st > Len(s) THEN << >>
            ELSE upto(st, RunEnd(s, dot(RunEnd(s, st, DigitOrComma)),
                                 Digits))
    IN  from(RunEnd(s, i, NotDigitOrComma(s)))

\* NeweggDataProcessor.extract_price
Newegg_extract_price(price_str) ==
    IF price_str = "" \/ price_str = "0" THEN Ok(None)
    ELSE LET positive(price) ==
                 IF ~price.ok THEN price
                 ELSE IF price.val.num > 0 THEN price ELSE Ok(None)
             first(numbers) ==
                 IF numbers # << >>
                 THEN positive(FloatOf(Replace(numbers[1], ",", "")))
                 ELSE Ok(None)
         IN  first(FindAllNumbers(price_str, 1))

\* the for loop of SylvaneDataProcessor.extract_price over numbers[k..]
RECURSIVE Sylvane_first_positive(_, _)
Sylvane_first_positive(numbers, k) ==
    IF k > Len(numbers) THEN Ok(None)
    ELSE LET positive(price) ==
                 IF ~price.ok THEN price
                 ELSE IF price.val.num > 0 THEN price
                 ELSE Sylvane_first_positive(numbers, k + 1)
         IN  positive(FloatOf(Replace(numbers[k], ",", "")))

\* SylvaneDataProcessor.extract_price
Sylvane_extract_price(price_str) ==
    IF price_str = "" \/ price_str = "0" \/ price_str = "N/A" THEN Ok(None)
    ELSE LET t1 == Replace(Replace(price_str, "\n", " "), "\r", " ")
             t2 == Replace(Replace(t1, "Sale price", ""), "Regular price", "")
             clean_text == Strip(t2)
             numbers == FindAllNumbers(clean_text, 1)
         IN  Sylvane_first_positive(numbers, 1)

-----------------------------------------------------------------------------
(* Category classifier *)

\* NeweggDataProcessor.__init__: self.category_keywords, in insertion order
category_keywords ==
    << [category |-> "Laptop",
        keywords |-> << "Laptop", "Notebook", "2-in-1", "Chromebook",
                        "Gaming Laptop", "TouchScreen Laptop" >>],
       [category |-> "Gaming PC",
        keywords |-> << "Gaming PC", "Desktop PC", "Pre-Built",
                        "Gaming Desktop" >>],
       [category |-> "CPU", keywords |-> << "Processor", "CPU" >>],
       [category |-> "Motherboard",
        keywords |-> << "Motherboard", "LGA", "Socket AM5", "ATX", "mATX",
                        "ITX" >>],
       [category |-> "Memory",
        keywords |-> << "RAM", "DDR5", "DDR4", "Memory", "GB (2 x" >>],
       [category |-> "SSD",
        keywords |-> << "SSD", "Solid State Drive", "NVMe", "M.2",
                        "PCIe Gen" >>],
       [category |-> "Graphics Card",
        keywords |-> << "Graphics Card", "GPU", "RTX", "Radeon",
                        "GeForce" >>],
       [category |-> "Storage", keywords |-> << "Hard Drive", "HDD" >>],
       [category |-> "Power Supply",
        keywords |-> << "Power Supply", "PSU", "W Power Supply" >>],
       [category |-> "Case", keywords |-> << "Case", "Chassis" >>],
       [category |-> "Cooler",
        keywords |-> << "Cooler", "Heatsink", "Liquid Cooler", "AIO" >>],
       [category |-> "Camera",
        keywords |-> << "Camera", "Webcam", "Surveillance",
                        "Security Camera", "PTZ", "NVR Kit", "Dome Camera" >>],
       [category |-> "Smart Home",
        keywords |-> << "Smart Plug", "Smart Light", "Hub", "Sensor",
                        "Doorbell", "Thermostat" >>],
       [category |-> "Networking",
        keywords |-> << "Router", "Switch", "Access Point", "WiFi",
                        "Ethernet" >>],
       [category |-> "Other", keywords |-> << >>] >>

\* the inner loop of detect_category over one category's keywords
RECURSIVE keyword_hit(_, _, _)
keyword_hit(title_lower, keywords, j) ==
    IF j > Len(keywords) THEN FALSE
    ELSE IF Contains(title_lower, Lower(keywords[j])) THEN TRUE
    ELSE keyword_hit(title_lower, keywords, j + 1)

\* a faulty classifier: the last entry with a hit wins
detect_last_from(title_lower, k) ==
    LET hits == {j \in k..Len(category_keywords) :
                    keyword_hit(title_lower, category_keywords[j].keywords, 1)}
    IN  IF hits = {} THEN "Other"
        ELSE category_keywords[CHOOSE j \in hits :
                                  \A i \in hits : i <= j].category

\* a faulty classifier: no fallback category when nothing hits
detect_from_without_fallback(title_lower, k) ==
    LET hits == {j \in k..Len(category_keywords) :
                    keyword_hit(title_lower, category_keywords[j].keywords, 1)}
    IN  IF hits = {} THEN ""
        ELSE category_keywords[CHOOSE j \in hits :
                                  \A i \in hits : j <= i].category

\* the outer loop of detect_category from the k-th entry on
RECURSIVE detect_from(_, _)
detect_from(title_lower, k) ==
    IF k > Len(category_keywords) THEN "Other"
    ELSE IF keyword_hit(title_lower, category_keywords[k].keywords, 1)
         THEN category_keywords[k].category
         ELSE detect_from(title_lower, k + 1)

\* NeweggDataProcessor.detect_category
detect_category(title) == detect_from(Lower(title), 1)

-----------------------------------------------------------------------------
(* Derived search link helpers *)

\* str.split(): the maximal runs of non-whitespace characters
NotWhitespace(s) == {Char(s, q) : q \in 1..Len(s)} \ Whitespace

RECURSIVE Split(_)
Split(s) ==
    LET word(t, e) == << SubSeq(t, 1, e - 1) >> \o Split(SubSeq(t, e, Len(t)))
        words(t) ==
            IF t = "" THEN << >>
            ELSE word(t, RunEnd(t, 1, NotWhitespace(t)))
    IN  words(LStrip(s))

\* " ".join(words)
RECURSIVE JoinSpace(_)
JoinSpace(words) ==
    IF words = << >> THEN ""
    ELSE IF Len(words) = 1 THEN words[1]
    ELSE words[1] \o " " \o JoinSpace(Tail(words))

\* words[:n]
Take(words, n) == SubSeq(words, 1, IF Len(words) < n THEN Len(words) ELSE n)

\* percent-encoding of the ASCII characters quote_plus does not keep
PercentCode ==
    [c \in {"!", "\"", "#", "$", "%", "&", "'", "(", ")", "*", "+", ",", "/",
            ":", ";", "<", "=", ">", "?", "@", "[", "\\", "]", "^", "{",
            "|", "}", "\n", "\r", "\t"} |->
       CASE c = "!" -> "%21" [] c = "\"" -> "%22" [] c = "#" -> "%23"
         [] c = "$" -> "%24" [] c = "%" -> "%25" [] c = "&" -> "%26"
         [] c = "'" -> "%27" [] c = "(" -> "%28" [] c = ")" -> "%29"
         [] c = "*" -> "%2A" [] c = "+" -> "%2B" [] c = "," -> "%2C"
         [] c = "/" -> "%2F" [] c = ":" -> "%3A" [] c = ";" -> "%3B"
         [] c = "<" -> "%3C" [] c = "=" -> "%3D" [] c = ">" -> "%3E"
         [] c = "?" -> "%3F" [] c = "@" -> "%40" [] c = "[" -> "%5B"
         [] c = "\\" -> "%5C" [] c = "]" -> "%5D" [] c = "^" -> "%5E"
         [] c = "{" -> "%7B" [] c = "|" -> "%7C"
         [] c = "}" -> "%7D" [] c = "\n" -> "%0A" [] c = "\r" -> "%0D"
         [] c = "\t" -> "%09"]

QuoteSafe == Letters \cup Digits \cup {"_", ".", "-", "~"}

\* urllib.parse.quote_plus(s), s ASCII, character by character
RECURSIVE quote_plus(_)
quote_plus(s) ==
    IF Len(s) = 0 THEN ""
    ELSE IF Len(s) = 1
         THEN (IF s = " " THEN "+"
               ELSE IF s \in QuoteSafe THEN s
               ELSE PercentCode[s])
    ELSE quote_plus(SubSeq(s, 1, Len(s) \div 2))
         \o quote_plus(SubSeq(s, Len(s) \div 2 + 1, Len(s)))

AmazonLink(search_term) ==
    "https://www.amazon.com/s?k=" \o quote_plus(search_term)
        \o "&tag=YOUR_TAG-20"

-----------------------------------------------------------------------------
(* Sylvane field extractors *)

\* float comparison a < b on PyFloat values
FloatLess(a, b) == a.num * b.den < b.num * a.den

\* int(x) if x == int(x) else x
IntIfWhole(x) == IF x.den = 1 THEN PyInt(x.num) ELSE x

\* r'sq\.?\s*ft\.?|square\s+feet|up\s+to|approximately|covers?\s+up\s+to|
\*   whole\s+house|manufacturer-suggested'
coverage_units_re ==
    ReAlt(<< ReCat(<< ReLit("sq"), ReOpt(ReLit(".")), ReStar(ReSpace),
                      ReLit("ft"), ReOpt(ReLit(".")) >>),
             ReCat(<< ReLit("square"), RePlus(ReSpace), ReLit("feet") >>),
             ReCat(<< ReLit("up"), RePlus(ReSpace), ReLit("to") >>),
             ReLit("approximately"),
             ReCat(<< ReLit("cover"), ReOpt(ReLit("s")), RePlus(ReSpace),
                      ReLit("up"), RePlus(ReSpace), ReLit("to") >>),
             ReCat(<< ReLit("whole"), RePlus(ReSpace), ReLit("house") >>),
             ReLit("manufacturer-suggested") >>)

\* [int(n.replace(',', '').strip()) for n in numbers
\*      if n.replace(',', '').strip()]
RECURSIVE cleaned_numbers(_)
cleaned_numbers(numbers) ==
    IF numbers = << >> THEN << >>
    ELSE LET int(t) == IF t # "" THEN << DigitsToNat(t, 0) >> ELSE << >>
         IN  int(Strip(Replace(Head(numbers), ",", "")))
             \o cleaned_numbers(Tail(numbers))

\* [n for n in ns if lo <= n <= hi]
RECURSIVE in_range(_, _, _)
in_range(ns, lo, hi) ==
    IF ns = << >> THEN << >>
    ELSE (IF lo <= Head(ns) /\ Head(ns) <= hi THEN << Head(ns) >> ELSE << >>)
         \o in_range(Tail(ns), lo, hi)

\* max(ns), ns non-empty
MaxOf(ns) == CHOOSE m \in {ns[q] : q \in 1..Len(ns)} :
                 \A q \in 1..Len(ns) : ns[q] <= m

\* SylvaneDataProcessor.extract_coverage_area
extract_coverage_area(value) ==
    IF value = "" \/ value = "N/A" THEN Ok(None)
    ELSE LET text == Strip(ReRemove(coverage_units_re, Lower(value), FALSE))
             positive(max_num) ==
                 IF max_num > 0 THEN Ok(PyInt(max_num)) ELSE Ok(None)
             largest(valid_numbers) ==
                 IF valid_numbers # << >>
                 THEN positive(MaxOf(valid_numbers)) ELSE Ok(None)
             valid(numbers) ==
                 IF numbers # << >>
                 THEN largest(in_range(cleaned_numbers(numbers), 50, 3000))
                 ELSE Ok(None)
         IN  valid(ReFindAll(RePlus(ReSet(DigitOrComma)), text, FALSE))

\* SylvaneDataProcessor._extract_single_number
extract_single_number(value) ==
    IF value = "" THEN Ok(None)
    ELSE LET numbers == ReFindAll(RePlus(ReDigit), value, FALSE) IN
         IF numbers # << >>
         THEN Ok(PyInt(MaxOf(cleaned_numbers(numbers))))
         ELSE Ok(None)

\* the body of extract_cadr_smoke / _pollen / _dust: a @staticmethod that
\* names self, which is not defined there
extract_cadr(value) ==
    IF value = "" \/ value = "N/A" THEN Ok(None)
    ELSE Raise("NameError")

\* SylvaneDataProcessor.extract_cadr_smoke
extract_cadr_smoke(value) == extract_cadr(value)

\* SylvaneDataProcessor.extract_cadr_pollen
extract_cadr_pollen(value) == extract_cadr(value)

\* SylvaneDataProcessor.extract_cadr_dust
extract_cadr_dust(value) == extract_cadr(value)

\* r'db|decibels?|dba|decibel\s+level|noise\s+level|maximum|minimum'
noise_units_re ==
    ReAlt(<< ReLit("db"),
             ReCat(<< ReLit("decibel"), ReOpt(ReLit("s")) >>),
             ReLit("dba"),
             ReCat(<< ReLit("decibel"), RePlus(ReSpace), ReLit("level") >>),
             ReCat(<< ReLit("noise"), RePlus(ReSpace), ReLit("level") >>),
             ReLit("maximum"),
             ReLit("minimum") >>)

\* r'\d+\.?\d*'
decimal_re == ReCat(<< RePlus(ReDigit), ReOpt(ReLit(".")), ReStar(ReDigit) >>)

\* [float(n) for n in numbers if n]
RECURSIVE floats_of(_)
floats_of(numbers) ==
    IF numbers = << >> THEN << >>
    ELSE << FloatOf(Head(numbers)).val >> \o floats_of(Tail(numbers))

MinFloat(xs) == CHOOSE m \in {xs[q] : q \in 1..Len(xs)} :
                    \A q \in 1..Len(xs) : ~FloatLess(xs[q], m)
MaxFloat(xs) == CHOOSE m \in {xs[q] : q \in 1..Len(xs)} :
                    \A q \in 1..Len(xs) : ~FloatLess(m, xs[q])

NoiseDict(lo, hi) == [t |-> "dict", min_noise |-> lo, max_noise |-> hi]

\* SylvaneDataProcessor.extract_noise_level
extract_noise_level(value) ==
    IF value = "" \/ value = "N/A" THEN Ok(NoiseDict(None, None))
    ELSE LET text == Strip(ReRemove(noise_units_re, Lower(value), FALSE))
             range(numbers) ==
                 IF numbers = << >> THEN Ok(NoiseDict(None, None))
                 ELSE IF Len(numbers) = 1
                      THEN Ok(NoiseDict(IntIfWhole(numbers[1]),
                                        IntIfWhole(numbers[1])))
                 ELSE Ok(NoiseDict(IntIfWhole(MinFloat(numbers)),
                                   IntIfWhole(MaxFloat(numbers))))
         IN  range(floats_of(ReFindAll(decimal_re, text, FALSE)))

\* SylvaneDataProcessor.extract_filter_type
extract_filter_type(value) ==
    IF value = "" \/ value = "N/A" THEN Ok(None) ELSE Ok(PyStr(value))

\* word_numbers of extract_fan_speeds, in insertion order
word_numbers ==
    << [word |-> "one", num |-> 1], [word |-> "two", num |-> 2],
       [word |-> "three", num |-> 3], [word |-> "four", num |-> 4],
       [word |-> "five", num |-> 5], [word |-> "six", num |-> 6],
       [word |-> "seven", num |-> 7], [word |-> "eight", num |-> 8],
       [word |-> "nine", num |-> 9], [word |-> "ten", num |-> 10] >>

RECURSIVE first_word_number(_, _)
first_word_number(text, k) ==
    IF k > Len(word_numbers) THEN None
    ELSE IF Contains(text, word_numbers[k].word)
         THEN PyInt(word_numbers[k].num)
         ELSE first_word_number(text, k + 1)

\* SylvaneDataProcessor.extract_fan_speeds
extract_fan_speeds(value) ==
    IF value = "" \/ value = "N/A" THEN Ok(None)
    ELSE LET speeds(text, number_match) ==
                 IF number_match.found
                 THEN Ok(PyInt(DigitsToNat(Group(text, number_match, 1), 0)))
                 ELSE Ok(first_word_number(text, 1))
             of(text) ==
                 speeds(text,
                        ReSearch(ReCat(<< ReWordB, ReGrp(1, RePlus(ReDigit)),
                                          ReWordB >>), text, 1, FALSE))
         IN  of(Strip(Lower(value)))

\* stop_words of SylvaneDataProcessor.generate_amazon_link
stop_words == << "air purifier", "air purifiers", "hepa", "model", "series" >>

RECURSIVE remove_stop_words(_, _)
remove_stop_words(title, k) ==
    IF k > Len(stop_words) THEN title
    ELSE remove_stop_words(Replace(title, stop_words[k], ""), k + 1)

\* SylvaneDataProcessor.generate_amazon_link
Sylvane_generate_amazon_link(product_name) ==
    LET title == remove_stop_words(Lower(product_name), 1)
        words == Take(Split(title), 5)
    IN  AmazonLink(JoinSpace(words))

-----------------------------------------------------------------------------
(* Newegg field extractors *)

\* first brand of the list with brand.lower() in title.lower(), else None
RECURSIVE first_brand(_, _, _)
first_brand(brands, title, k) ==
    IF k > Len(brands) THEN None
    ELSE IF Contains(Lower(title), Lower(brands[k])) THEN PyStr(brands[k])
    ELSE first_brand(brands, title, k + 1)

\* the first pattern of the list that matches title (for pattern in ...:
\* match = re.search(pattern, title, re.IGNORECASE); if match: ...; break)
RECURSIVE first_pattern(_, _, _)
first_pattern(patterns, title, k) ==
    IF k > Len(patterns) THEN NoMatch
    ELSE LET or_next(m) ==
                 IF m.found THEN m ELSE first_pattern(patterns, title, k + 1)
         IN  or_next(ReSearch(patterns[k], title, 1, TRUE))

\* f"{match.group(g)}": the text of the group, "None" for an unset group
GroupStr(s, m, g) == IF GroupIsNone(m, g) THEN "None" ELSE Group(s, m, g)

\* int(match.group(g))
GroupInt(s, m, g) == DigitsToNat(Group(s, m, g), 0)

\* match.group(g) if match else None
GroupOrNone(s, m, g) == IF m.found THEN PyStr(Group(s, m, g)) ELSE None

\* match.group(g).strip() if match else None
StrippedGroupOrNone(s, m, g) ==
    IF m.found THEN PyStr(Strip(Group(s, m, g))) ELSE None

\* int(match.group(g)) if match else None
IntGroupOrNone(s, m, g) == IF m.found THEN PyInt(GroupInt(s, m, g)) ELSE None

\* f"{match.group(g)}<unit>" if match else None
GroupWithUnitOrNone(s, m, g, unit) ==
    IF m.found THEN PyStr(Group(s, m, g) \o unit) ELSE None

ReLetter == ReSet(Letters)                          \* [A-Za-z]
ReAlnumUpper == ReSet(UpperLetters \cup Digits)     \* [A-Z0-9]

\* r'\b(AMD|Intel)\b'
cpu_brand_re ==
    ReCat(<< ReWordB, ReGrp(1, ReAlt(<< ReLit("AMD"), ReLit("Intel") >>)),
             ReWordB >>)

\* series_patterns of parse_cpu_specs
cpu_series_patterns ==
    << \* r'\b(Ryzen\s*[3579]|Ryzen\s+Threadripper|EPYC)\b'
       ReCat(<< ReWordB,
                ReGrp(1, ReAlt(<<
                    ReCat(<< ReLit("Ryzen"), ReStar(ReSpace),
                             ReSet({"3", "5", "7", "9"}) >>),
                    ReCat(<< ReLit("Ryzen"), RePlus(ReSpace),
                             ReLit("Threadripper") >>),
                    ReLit("EPYC") >>)),
                ReWordB >>),
       \* r'\b(Core\s*[ijU][3579]|Core\s+Ultra)\b'
       ReCat(<< ReWordB,
                ReGrp(1, ReAlt(<<
                    ReCat(<< ReLit("Core"), ReStar(ReSpace),
                             ReSet({"i", "j", "U"}),
                             ReSet({"3", "5", "7", "9"}) >>),
                    ReCat(<< ReLit("Core"), RePlus(ReSpace),
                             ReLit("Ultra") >>) >>)),
                ReWordB >>),
       \* r'\b(Pentium|Celeron)\b'
       ReCat(<< ReWordB,
                ReGrp(1, ReAlt(<< ReLit("Pentium"), ReLit("Celeron") >>)),
                ReWordB >>) >>

\* r'\b(\d{4,5}[A-Za-z]{0,4}[LXK]?)\b'
cpu_model_re ==
    ReCat(<< ReWordB,
             ReGrp(1, ReCat(<< ReRep(ReDigit, 4, 5), ReRep(ReLetter, 0, 4),
                               ReOpt(ReSet({"L", "X", "K"})) >>)),
             ReWordB >>)

\* r'(\d+)[\s-]*Co(?:re|res)'
cpu_cores_re ==
    ReCat(<< ReGrp(1, RePlus(ReDigit)),
             ReStar(ReSet(Whitespace \cup {"-"})), ReLit("Co"),
             ReAlt(<< ReLit("re"), ReLit("res") >>) >>)

\* r'(\d+)\s*GHz': the speed pattern without the fractional part
cpu_speed_re_integer_only ==
    ReCat(<< ReGrp(1, RePlus(ReDigit)), ReStar(ReSpace), ReLit("GHz") >>)

\* r'(\d+\.?\d*)\s*GHz'
cpu_speed_re ==
    ReCat(<< ReGrp(1, decimal_re), ReStar(ReSpace), ReLit("GHz") >>)

\* socket_patterns of parse_cpu_specs
cpu_socket_patterns ==
    << \* r'Socket\s+([A-Z0-9]+)'
       ReCat(<< ReLit("Socket"), RePlus(ReSpace),
                ReGrp(1, RePlus(ReAlnumUpper)) >>),
       \* r'LGA\s*(\d{4,5})'
       ReCat(<< ReLit("LGA"), ReStar(ReSpace),
                ReGrp(1, ReRep(ReDigit, 4, 5)) >>),
       \* r'\b(AM[45])\b'
       ReCat(<< ReWordB,
                ReGrp(1, ReCat(<< ReLit("AM"), ReSet({"4", "5"}) >>)),
                ReWordB >>) >>

\* r'(\d{2,3})\s*W(?:\s|,|$|\.|\))'
cpu_power_re ==
    ReCat(<< ReGrp(1, ReRep(ReDigit, 2, 3)), ReStar(ReSpace), ReLit("W"),
             ReAlt(<< ReSpace, ReLit(","), ReEnd, ReLit("."),
                      ReLit(")") >>) >>)

\* NeweggDataProcessor.parse_cpu_specs
parse_cpu_specs(title) ==
    LET prefixed(socket_raw) ==
            IF ~StartsWith(socket_raw, "LGA") /\ ~StartsWith(socket_raw, "AM")
            THEN "Socket " \o socket_raw ELSE socket_raw
        socket(socket_match) ==
            IF socket_match.found
            THEN PyStr(prefixed(Strip(Group(title, socket_match, 1))))
            ELSE None
        watts(power_val) ==
            IF 35 <= power_val /\ power_val <= 350
            THEN PyStr(ToString(power_val) \o "W") ELSE None
        power(power_match) ==
            IF power_match.found
            THEN watts(GroupInt(title, power_match, 1)) ELSE None
    IN  [t |-> "dict",
         brand |-> GroupOrNone(title,
                               ReSearch(cpu_brand_re, title, 1, TRUE), 1),
         series |-> StrippedGroupOrNone(
                        title, first_pattern(cpu_series_patterns, title, 1),
                        1),
         model |-> GroupOrNone(title,
                               ReSearch(cpu_model_re, title, 1, FALSE), 1),
         cores |-> IntGroupOrNone(title,
                                  ReSearch(cpu_cores_re, title, 1, TRUE), 1),
         speed |-> GroupWithUnitOrNone(
                       title, ReSearch(cpu_speed_re, title, 1, TRUE), 1,
                       " GHz"),
         socket |-> socket(first_pattern(cpu_socket_patterns, title, 1)),
         power |-> power(ReSearch(cpu_power_re, title, 1, TRUE))]

\* brands of parse_motherboard_specs
motherboard_brands == << "ASUS", "GIGABYTE", "MSI", "ASRock", "MSI" >>

\* r'([ABCXYZ]\d{3,4}|[BZ]\d{3,})'
chipset_re ==
    ReGrp(1, ReAlt(<<
        ReCat(<< ReSet({"A", "B", "C", "X", "Y", "Z"}),
                 ReRep(ReDigit, 3, 4) >>),
        ReCat(<< ReSet({"B", "Z"}), ReRep(ReDigit, 3, -1) >>) >>))

\* r'Socket\s+([A-Z0-9]+)|LGA\s*(\d{4,5})|AM[45]'
motherboard_socket_re ==
    ReAlt(<< ReCat(<< ReLit("Socket"), RePlus(ReSpace),
                      ReGrp(1, RePlus(ReAlnumUpper)) >>),
             ReCat(<< ReLit("LGA"), ReStar(ReSpace),
                      ReGrp(2, ReRep(ReDigit, 4, 5)) >>),
             ReCat(<< ReLit("AM"), ReSet({"4", "5"}) >>) >>)

\* NeweggDataProcessor.parse_motherboard_specs
parse_motherboard_specs(title) ==
    LET group0(socket_match) ==
            IF socket_match.found
            THEN PyStr(Group0(title, socket_match)) ELSE None
    IN  [t |-> "dict",
         brand |-> first_brand(motherboard_brands, title, 1),
         chipset |-> GroupOrNone(title,
                                 ReSearch(chipset_re, title, 1, FALSE), 1),
         socket |-> group0(ReSearch(motherboard_socket_re, title, 2, TRUE)),
         form_factor |->
             IF Contains(title, "ATX") THEN PyStr("ATX")
             ELSE IF Contains(title, "mATX") \/ Contains(title, "Micro ATX")
                  THEN PyStr("mATX")
             ELSE IF Contains(title, "ITX") THEN PyStr("ITX")
             ELSE None,
         memory_type |->
             IF Contains(title, "DDR5") THEN PyStr("DDR5")
             ELSE IF Contains(title, "DDR4") THEN PyStr("DDR4")
             ELSE None]

\* brands of parse_memory_specs
memory_brands == << "CORSAIR", "G.SKILL", "Kingston", "Crucial", "Patriot" >>

\* r'(\d+)\s*GB'
memory_capacity_re ==
    ReCat(<< ReGrp(1, RePlus(ReDigit)), ReStar(ReSpace), ReLit("GB") >>)

\* r'(\d{4})\s*(?:MHz|PC5)'
memory_speed_re ==
    ReCat(<< ReGrp(1, ReRep(ReDigit, 4, 4)), ReStar(ReSpace),
             ReAlt(<< ReLit("MHz"), ReLit("PC5") >>) >>)

\* NeweggDataProcessor.parse_memory_specs
parse_memory_specs(title) ==
    [t |-> "dict",
     brand |-> first_brand(memory_brands, title, 1),
     capacity_gb |-> IntGroupOrNone(
                         title, ReSearch(memory_capacity_re, title, 1, FALSE),
                         1),
     type |-> IF Contains(title, "DDR5") THEN PyStr("DDR5")
              ELSE IF Contains(title, "DDR4") THEN PyStr("DDR4")
              ELSE None,
     speed_mhz |-> IntGroupOrNone(
                       title, ReSearch(memory_speed_re, title, 1, FALSE), 1)]

\* brands of parse_ssd_specs
ssd_brands ==
    << "SAMSUNG", "Western Digital", "WD", "Crucial", "Patriot", "Kingston",
       "Sabrent", "Solidigm" >>

\* r'(\d+)\s*TB': the terabyte pattern without the fractional part
ssd_tb_re_integer_only ==
    ReCat(<< ReGrp(1, RePlus(ReDigit)), ReStar(ReSpace), ReLit("TB") >>)

\* r'(\d+\.?\d*)\s*TB'
ssd_tb_re == ReCat(<< ReGrp(1, decimal_re), ReStar(ReSpace), ReLit("TB") >>)

\* r'(\d+)\s*GB(?!\s*\w)'
ssd_gb_re ==
    ReCat(<< ReGrp(1, RePlus(ReDigit)), ReStar(ReSpace), ReLit("GB"),
             ReNotAhead(ReCat(<< ReStar(ReSpace), ReSet(WordChars) >>)) >>)

\* r'(\d+,?\d*)\s*MB/s'
ssd_read_re ==
    ReCat(<< ReGrp(1, ReCat(<< RePlus(ReDigit), ReOpt(ReLit(",")),
                               ReStar(ReDigit) >>)),
             ReStar(ReSpace), ReLit("MB/s") >>)

\* int(tb_value * 1024) for tb_value = float(text)
TbToGb(text) ==
    LET gb(tb_value) == (tb_value.num * 1024) \div tb_value.den
    IN  gb(FloatOf(text).val)

\* NeweggDataProcessor.parse_ssd_specs
parse_ssd_specs(title) ==
    LET capacity(tb_match) ==
            IF tb_match.found
            THEN PyInt(TbToGb(Group(title, tb_match, 1)))
            ELSE IntGroupOrNone(title,
                                ReSearch(ssd_gb_re, title, 1, FALSE), 1)
    IN  [t |-> "dict",
         brand |-> first_brand(ssd_brands, title, 1),
         capacity_gb |-> capacity(ReSearch(ssd_tb_re, title, 1, FALSE)),
         interface |->
             IF Contains(title, "PCIe Gen4") \/ Contains(title, "PCIe 4.0")
             THEN PyStr("PCIe Gen4")
             ELSE IF Contains(title, "PCIe Gen3")
                     \/ Contains(title, "PCIe 3.0")
                  THEN PyStr("PCIe Gen3")
             ELSE None,
         read_speed |-> GroupOrNone(
                            title, ReSearch(ssd_read_re, title, 1, FALSE), 1),
         form_factor |->
             IF Contains(title, "M.2") THEN PyStr("M.2")
             ELSE IF Contains(title, "2.5\"") THEN PyStr("2.5 inch")
             ELSE None]

\* r'\d+[A-Za-z]{0,4}'
digits_letters_re == ReCat(<< RePlus(ReDigit), ReRep(ReLetter, 0, 4) >>)

ReDigit3579 == ReSet({"3", "5", "7", "9"})          \* [3579]

\* r'(Intel Core [iU3579][-\s]*\d+[A-Za-z]{0,4})'
intel_core_re ==
    ReGrp(1, ReCat(<< ReLit("Intel Core "),
                      ReSet({"i", "U", "3", "5", "7", "9"}),
                      ReStar(ReSet(Whitespace \cup {"-"})),
                      digits_letters_re >>))

\* r'(Intel Core Ultra [3579]\s*\d+[A-Za-z]{0,4})'
intel_ultra_re ==
    ReGrp(1, ReCat(<< ReLit("Intel Core Ultra "), ReDigit3579,
                      ReStar(ReSpace), digits_letters_re >>))

\* r'(AMD Ryzen [3579]\s*\d{4}[A-Za-z]{0,4})'
amd_ryzen_re ==
    ReGrp(1, ReCat(<< ReLit("AMD Ryzen "), ReDigit3579, ReStar(ReSpace),
                      ReRep(ReDigit, 4, 4), ReRep(ReLetter, 0, 4) >>))

\* r'(Intel Core \d+ Proces)'
intel_proces_re ==
    ReGrp(1, ReCat(<< ReLit("Intel Core "), RePlus(ReDigit),
                      ReLit(" Proces") >>))

\* r'(RTX\s*\d+[A-Za-z]{0,4})'
rtx_re == ReGrp(1, ReCat(<< ReLit("RTX"), ReStar(ReSpace),
                            digits_letters_re >>))

\* r'(GeForce\s*RTX\s*\d+[A-Za-z]{0,4})'
geforce_rtx_re ==
    ReGrp(1, ReCat(<< ReLit("GeForce"), ReStar(ReSpace), ReLit("RTX"),
                      ReStar(ReSpace), digits_letters_re >>))

\* r'(GeForce\s*GTX\s*\d+[A-Za-z]{0,4})'
geforce_gtx_re ==
    ReGrp(1, ReCat(<< ReLit("GeForce"), ReStar(ReSpace), ReLit("GTX"),
                      ReStar(ReSpace), digits_letters_re >>))

\* r'(Radeon\s*RX\s*\d+[A-Za-z]{0,4})'
radeon_rx_re ==
    ReGrp(1, ReCat(<< ReLit("Radeon"), ReStar(ReSpace), ReLit("RX"),
                      ReStar(ReSpace), digits_letters_re >>))

\* r'(RTX\s*\d+[A-Za-z]{0,4}\s*Laptop)'
rtx_laptop_re ==
    ReGrp(1, ReCat(<< ReLit("RTX"), ReStar(ReSpace), digits_letters_re,
                      ReStar(ReSpace), ReLit("Laptop") >>))

\* r'(GeForce\s*RTX\s*\d+[A-Za-z]{0,4}\s*Laptop)'
geforce_rtx_laptop_re ==
    ReGrp(1, ReCat(<< ReLit("GeForce"), ReStar(ReSpace), ReLit("RTX"),
                      ReStar(ReSpace), digits_letters_re, ReStar(ReSpace),
                      ReLit("Laptop") >>))

\* r'(\d+)\s*GB\s*DDR[45]'
ram_re ==
    ReCat(<< ReGrp(1, RePlus(ReDigit)), ReStar(ReSpace), ReLit("GB"),
             ReStar(ReSpace), ReLit("DDR"), ReSet({"4", "5"}) >>)

\* r'(\d+)\s*GB\s*(SSD|NVMe|M\.2)'
laptop_gb_storage_re ==
    ReCat(<< ReGrp(1, RePlus(ReDigit)), ReStar(ReSpace), ReLit("GB"),
             ReStar(ReSpace),
             ReGrp(2, ReAlt(<< ReLit("SSD"), ReLit("NVMe"),
                               ReLit("M.2") >>)) >>)

\* r'(\d+)\s*TB\s*SSD'
laptop_tb_storage_re ==
    ReCat(<< ReGrp(1, RePlus(ReDigit)), ReStar(ReSpace), ReLit("TB"),
             ReStar(ReSpace), ReLit("SSD") >>)

\* r'(\d+\.?\d*)["\s]'
screen_re == ReCat(<< ReGrp(1, decimal_re), ReSet(Whitespace \cup {"\""}) >>)

\* brands of parse_laptop_specs
laptop_brands ==
    << "ASUS", "MSI", "Acer", "Lenovo", "Dell", "HP", "Razer", "GIGABYTE",
       "XIDAX" >>

\* cpu_patterns of parse_laptop_specs
laptop_cpu_patterns ==
    << intel_core_re, intel_ultra_re, amd_ryzen_re, intel_proces_re >>

\* gpu_patterns of parse_laptop_specs
laptop_gpu_patterns ==
    << rtx_laptop_re, geforce_rtx_laptop_re, radeon_rx_re >>

\* NeweggDataProcessor.parse_laptop_specs
parse_laptop_specs(title) ==
    LET tb_storage(tb_match) ==
            IF tb_match.found
            THEN PyStr(GroupStr(title, tb_match, 1) \o " TB SSD") ELSE None
        storage(gb_match) ==
            IF gb_match.found
            THEN PyStr(GroupStr(title, gb_match, 1) \o " GB "
                       \o GroupStr(title, gb_match, 2))
            ELSE tb_storage(ReSearch(laptop_tb_storage_re, title, 1, TRUE))
        sized(text, screen_val) ==
            IF screen_val.num >= 10 * screen_val.den
               /\ screen_val.num <= 20 * screen_val.den
            THEN PyStr(text \o " inch") ELSE None
        inches(text) == sized(text, FloatOf(text).val)
        screen_size(screen_match) ==
            IF screen_match.found
            THEN inches(Group(title, screen_match, 1)) ELSE None
    IN  [t |-> "dict",
         brand |-> first_brand(laptop_brands, title, 1),
         cpu |-> StrippedGroupOrNone(
                     title, first_pattern(laptop_cpu_patterns, title, 1), 1),
         ram |-> GroupWithUnitOrNone(title, ReSearch(ram_re, title, 1, TRUE),
                                     1, " GB"),
         storage |-> storage(ReSearch(laptop_gb_storage_re, title, 2, TRUE)),
         screen_size |-> screen_size(ReSearch(screen_re, title, 1, FALSE)),
         gpu |-> StrippedGroupOrNone(
                     title, first_pattern(laptop_gpu_patterns, title, 1), 1)]

\* brands of parse_gaming_pc_specs
gaming_pc_brands ==
    << "ABS", "iBUYPOWER", "CYBERPOWERPC", "Skytech", "CLX", "Xidax" >>

\* cpu_patterns of parse_gaming_pc_specs
gaming_pc_cpu_patterns == << intel_core_re, intel_ultra_re, amd_ryzen_re >>

\* gpu_patterns of parse_gaming_pc_specs
gaming_pc_gpu_patterns ==
    << rtx_re, geforce_rtx_re, geforce_gtx_re, radeon_rx_re >>

\* r'(\d+)\s*(GB|TB)\s*SSD|NVMe'
gaming_pc_storage_re ==
    ReAlt(<< ReCat(<< ReGrp(1, RePlus(ReDigit)), ReStar(ReSpace),
                      ReGrp(2, ReAlt(<< ReLit("GB"), ReLit("TB") >>)),
                      ReStar(ReSpace), ReLit("SSD") >>),
             ReLit("NVMe") >>)

\* NeweggDataProcessor.parse_gaming_pc_specs
parse_gaming_pc_specs(title) ==
    LET storage(storage_match) ==
            IF storage_match.found
            THEN PyStr(GroupStr(title, storage_match, 1) \o " "
                       \o GroupStr(title, storage_match, 2) \o " SSD")
            ELSE None
    IN  [t |-> "dict",
         brand |-> first_brand(gaming_pc_brands, title, 1),
         cpu |-> StrippedGroupOrNone(
                     title, first_pattern(gaming_pc_cpu_patterns, title, 1),
                     1),
         gpu |-> StrippedGroupOrNone(
                     title, first_pattern(gaming_pc_gpu_patterns, title, 1),
                     1),
         ram |-> GroupWithUnitOrNone(title, ReSearch(ram_re, title, 1, TRUE),
                                     1, " GB"),
         storage |-> storage(ReSearch(gaming_pc_storage_re, title, 2, TRUE))]

-----------------------------------------------------------------------------
(* Derived link generator (Newegg) *)

\* brands of NeweggDataProcessor.generate_amazon_link
link_brands ==
    << "AMD", "Intel", "ASUS", "GIGABYTE", "MSI", "ASRock", "CORSAIR",
       "SAMSUNG", "eufy", "Arlo", "Ubiquiti", "Reolink", "Kasa", "Philips",
       "Eve" >>

\* r'\d{4,5}[A-Za-z]{0,4}'
link_model_re == ReCat(<< ReRep(ReDigit, 4, 5), ReRep(ReLetter, 0, 4) >>)

\* search_terms of generate_amazon_link, before it is cut to 4 entries
link_search_terms(title, category) ==
    LET brand_terms(brand) == IF brand = None THEN << >> ELSE << brand.s >>
        model(model_match) ==
            IF model_match.found
            THEN << Group0(title, model_match) >> ELSE << >>
        more == IF category = "CPU"
                THEN model(ReSearch(link_model_re, title, 0, FALSE))
                ELSE Take(Split(title), 5)
        or_words(search_terms) ==
            IF search_terms = << >> THEN Take(Split(title), 3)
            ELSE search_terms
    IN  or_words(brand_terms(first_brand(link_brands, title, 1)) \o more)

\* generate_amazon_link without the cut of search_terms to four entries
Newegg_generate_amazon_link_uncut(title, category) ==
    AmazonLink(JoinSpace(link_search_terms(title, category)))

\* NeweggDataProcessor.generate_amazon_link
Newegg_generate_amazon_link(title, category) ==
    AmazonLink(JoinSpace(Take(link_search_terms(title, category), 4)))

-----------------------------------------------------------------------------
(* Record normalizer *)

\* a raw Newegg record; a key the JSON lacks reads as record.get's default
NeweggRaw(title, price, img_url) ==
    [title |-> title, price |-> price, img_url |-> img_url,
     product_link |-> "", item_features |-> << >>]

\* a raw Sylvane record; a key the JSON lacks reads as "" (falsy, like None)
SylvaneRaw(product_name, price, image_url, coverage_area, cadr_smoke, noise_level, fan_speeds) ==
    [product_name |-> product_name, price |-> price, url |-> "",
     image_url |-> image_url, coverage_area |-> coverage_area,
     cadr_smoke |-> cadr_smoke, cadr_pollen |-> "", cadr_dust |-> "",
     noise_level |-> noise_level, filter_type |-> "",
     fan_speeds |-> fan_speeds]

\* the categories normalize_record has an extractor for
ExtractorCategories ==
    {"CPU", "Motherboard", "Memory", "SSD", "Laptop", "Gaming PC"}

\* the if / elif chain with the attributes that were not found left out of
\* the mapping (brand is kept: normalize_record reads it)
specs_for_without_nulls(category, title) ==
    LET found(specs) ==
            [a \in {b \in DOMAIN specs :
                        b \in {"t", "brand"} \/ specs[b] # None}
                 |-> specs[a]]
    IN  CASE category = "CPU" -> found(parse_cpu_specs(title))
          [] category = "Motherboard" ->
                 found(parse_motherboard_specs(title))
          [] category = "Memory" -> found(parse_memory_specs(title))
          [] category = "SSD" -> found(parse_ssd_specs(title))
          [] category = "Laptop" -> found(parse_laptop_specs(title))
          [] category = "Gaming PC" -> found(parse_gaming_pc_specs(title))
          [] OTHER -> [t |-> "dict"]

\* the if / elif chain with a brand entry in the mapping of the categories
\* without an extractor
specs_for_with_brand_entry(category, title) ==
    CASE category = "CPU" -> parse_cpu_specs(title)
      [] category = "Motherboard" -> parse_motherboard_specs(title)
      [] category = "Memory" -> parse_memory_specs(title)
      [] category = "SSD" -> parse_ssd_specs(title)
      [] category = "Laptop" -> parse_laptop_specs(title)
      [] category = "Gaming PC" -> parse_gaming_pc_specs(title)
      [] OTHER -> [t |-> "dict", brand |-> None]

\* the if / elif chain of NeweggDataProcessor.normalize_record
specs_for(category, title) ==
    CASE category = "CPU" -> parse_cpu_specs(title)
      [] category = "Motherboard" -> parse_motherboard_specs(title)
      [] category = "Memory" -> parse_memory_specs(title)
      [] category = "SSD" -> parse_ssd_specs(title)
      [] category = "Laptop" -> parse_laptop_specs(title)
      [] category = "Gaming PC" -> parse_gaming_pc_specs(title)
      [] OTHER -> [t |-> "dict"]

\* NeweggDataProcessor.normalize_record; now is datetime.now()
Newegg_normalize_record(record, now) ==
    LET title == record.title
        normalized_as(price, category, specs) ==
            [t |-> "dict",
             original_data |-> record,
             title |-> title,
             category |-> category,
             price |-> price,
             image_url |-> record.img_url,
             product_link |-> record.product_link,
             item_features |-> record.item_features,
             processed_at |-> now,
             brand |-> IF category \in ExtractorCategories
                       THEN specs.brand ELSE None,
             specs |-> specs,
             amazon_link |-> Newegg_generate_amazon_link(title, category)]
        classified(price, category) ==
            normalized_as(price, category, specs_for(category, title))
        priced(price) ==
            IF ~price.ok THEN price
            ELSE IF ~Truthy(price.val) THEN Ok(None)
            ELSE Ok(classified(price.val, detect_category(title)))
    IN  priced(Newegg_extract_price(record.price))

\* the first call of the sequence that raised, if any
RECURSIVE first_raise(_)
first_raise(results) ==
    IF results = << >> THEN Ok(None)
    ELSE IF ~Head(results).ok THEN Head(results)
    ELSE first_raise(Tail(results))

\* SylvaneDataProcessor.normalize_record; now is datetime.now()
Sylvane_normalize_record(record, now) ==
    LET product_name == record.product_name
        normalized_as(price, coverage_area, cadr_smoke, cadr_pollen,
                      cadr_dust, noise_level, filter_type, fan_speeds) ==
            LET raised == first_raise(<< coverage_area, cadr_smoke,
                                         cadr_pollen, cadr_dust, noise_level,
                                         filter_type, fan_speeds >>)
            IN  IF ~raised.ok THEN raised
                ELSE Ok([t |-> "dict",
                         product_name |-> product_name,
                         url |-> record.url,
                         price |-> price,
                         image_url |-> record.image_url,
                         coverage_area |-> coverage_area.val,
                         cadr_smoke |-> cadr_smoke.val,
                         cadr_pollen |-> cadr_pollen.val,
                         cadr_dust |-> cadr_dust.val,
                         noise_level |-> noise_level.val,
                         filter_type |-> filter_type.val,
                         fan_speeds |-> fan_speeds.val,
                         amazon_link |->
                             Sylvane_generate_amazon_link(product_name),
                         processed_at |-> now])
        priced(price) ==
            IF ~price.ok THEN price
            ELSE IF ~Truthy(price.val) THEN Ok(None)
            ELSE normalized_as(price.val,
                               extract_coverage_area(record.coverage_area),
                               extract_cadr_smoke(record.cadr_smoke),
                               extract_cadr_pollen(record.cadr_pollen),
                               extract_cadr_dust(record.cadr_dust),
                               extract_noise_level(record.noise_level),
                               extract_filter_type(record.filter_type),
                               extract_fan_speeds(record.fan_speeds))
    IN  priced(Sylvane_extract_price(record.price))

-----------------------------------------------------------------------------
(* Inputs: scraped texts and raw records *)

\* all texts of at most n characters over an alphabet
RECURSIVE TextsUpTo(_, _)
TextsUpTo(alphabet, n) ==
    IF n = 0 THEN {""}
    ELSE LET shorter == TextsUpTo(alphabet, n - 1) IN
         shorter \cup {t \o c : t \in shorter, c \in alphabet}

\* scraped price / field texts: every short text over the characters the
\* number patterns tell apart, and texts of the shapes the sites serve
TextAlphabet == {"$", ",", ".", "0", "5", "x"}

TextPool ==
    {"N/A", "Free", "$159.99", "$1,234.50", "Sale price $89.99",
     "Regular price\n$10", "0 5", "$0.004", "12.", "1,2,3", "250",
     "219 sq. ft.", "Up to 1,095 sq ft", "24 - 50 dB", "53.8 dB",
     "Three", "3 speeds", "True HEPA", "219 sq. ft. to 1,095 sq ft",
     "5000 or 400", "49 sq ft", "150sq ft300"}

Texts == TextsUpTo(TextAlphabet, MaxTextLen) \cup TextPool

\* product titles: every title of a few words, and full listing titles
TitleWords ==
    {"Gaming PC", "Laptop", "notebook", "Desktop PC", "PROCESSOR", "cpu",
     "Motherboard", "ssd", "DDR5", "Case", "Mug", "Gaming"}

RECURSIVE TitlesUpTo(_)
TitlesUpTo(n) ==
    IF n = 1 THEN TitleWords
    ELSE LET shorter == TitlesUpTo(n - 1) IN
         shorter \cup {t \o " " \o w : t \in shorter, w \in TitleWords}

TitlePool ==
    {"", "AMD Ryzen 5 5600X 6-Core 3.7 GHz Socket AM4 65W Desktop Processor",
     "ASUS ROG STRIX B650E-F GAMING WIFI AM5 ATX Motherboard DDR5",
     "CORSAIR Vengeance 32GB (2 x 16GB) DDR5 6000 MHz Desktop Memory",
     "SAMSUNG 990 PRO 2TB PCIe Gen4 NVMe M.2 SSD 7,450 MB/s",
     "MSI Thin 15 Gaming Laptop Intel Core i5-12450H 8 GB DDR4 1TB SSD",
     "ABS Stratos Aqua Gaming PC Intel Core i7-14700F GeForce RTX 4060",
     "EVGA 750 W Power Supply", "Logitech C920 Webcam", "Ceramic mug",
     "Seagate 4TB Hard Drive HDD", "Netgear WiFi Router AX1800",
     "Solidigm 7.68TB SSD", "Micron 1.5 TB SSD 512GB", "WD 1.2.3TB SSD",
     "Xeon 1065W cpu", "Xeon 500W cpu", "GeForce RTX 4060", "AIO Cooler",
     "Smart Plug", "Intel Core i7-14700K Processor",
     "Ryzen 5 5600X AMD Processor", "Evening lamp + shade",
     "Intel or AMD cpu", "MSI or ASUS WD SAMSUNG", "B550M mATX mainboard",
     "Micro ATX mainboard", "Mini-ITX mainboard", "NVMe Gaming PC",
     "Gaming PC 1TB NVMe SSD", "Gaming PC 512 GB SSD"}

Titles == TitlesUpTo(MaxTitleWords) \cup TitlePool

RyzenTitle ==
    "AMD Ryzen 5 5600X 6-Core 3.7 GHz Socket AM4 65W Desktop Processor"

LevoitName == "Levoit Core 300 Air Purifier"

\* product names of Sylvane listings
NamePool ==
    {"", "Air Purifier",
     "Coway Airmega 400S True HEPA Air Purifier with Smart Mode",
     "IQAir HealthPro Plus Series Model X 5 6 7"}

\* raw records handed to the direct calls
NeweggInputs ==
    {NeweggRaw(title, "$159.99", "a.jpg") : title \in Titles}
        \cup {NeweggRaw("WD Blue 500GB SSD", price, "a.jpg") : price \in Texts}

SylvaneInputs ==
    {[SylvaneRaw(LevoitName, "$99.99", "i.png", text, text, text, text)
         EXCEPT !.cadr_pollen = text, !.cadr_dust = text,
                !.filter_type = text] : text \in Texts}
        \cup {SylvaneRaw(LevoitName, price, "i.png", "219 sq. ft.", "",
                         "24 - 50 dB", "3") : price \in Texts}
        \cup {SylvaneRaw(name, "$99.99", "i.png", "219 sq. ft.", "",
                         "24 - 50 dB", "3") : name \in NamePool}
        \cup {SylvaneRaw(LevoitName, price, "i.png", "", "250", "", "") :
                  price \in {"N/A", "$10"}}

\* raw records of the input files of the pipeline runs
NeweggPool ==
    {NeweggRaw(RyzenTitle, "$159.99", "a.jpg"),
     NeweggRaw(RyzenTitle, "$149.99", "b.jpg"),
     NeweggRaw("WD Blue 500GB SSD 560MB/s", "$0.004", "c.jpg"),
     NeweggRaw("Ceramic mug", "N/A", "d.jpg"),
     NeweggRaw("Logitech C920 Webcam", ",", "e.jpg")}

SylvanePool ==
    {SylvaneRaw(LevoitName, "$99.99", "i.png", "219 sq. ft.", "",
                "24 - 50 dB", "3"),
     SylvaneRaw(LevoitName, "Sale price $89.99", "j.png",
                "Up to 1,095 sq ft", "", "53.8 dB", "Three"),
     SylvaneRaw("Coway Airmega 400S", "$0.004", "k.png", "", "", "", ""),
     SylvaneRaw("IQAir HealthPro Plus", "N/A", "l.png", "", "", "", ""),
     SylvaneRaw("Blueair Blue Pure 211", "$10", "m.png", "", "250", "",
                "")}

Pool(s) == IF s = "newegg" THEN NeweggPool ELSE SylvanePool

\* the JSON arrays an input file may hold
RECURSIVE Batches(_, _)
Batches(s, n) ==
    IF n = 0 THEN {<< >>}
    ELSE LET shorter == Batches(s, n - 1) IN
         shorter \cup {Append(b, r) : b \in shorter, r \in Pool(s)}

-----------------------------------------------------------------------------
(* Processor state *)

Sites == {"newegg", "sylvane"}

NoExc == [type |-> "none", in |-> "none"]
Exc(type, where) == [type |-> type, in |-> where]

NoCall == [fn |-> "none"]

\* datetime.isoformat(): the text of a clock reading
isoformat(time) == [t |-> "str", iso |-> time]

\* normalize_record with the clock reading also kept in the price field
normalize_record_pricing_by_time(s, record, now) ==
    LET timed(r) ==
            IF r.ok /\ Truthy(r.val)
            THEN Ok([r.val EXCEPT !.price = PyFloat(now.iso, 1)])
            ELSE r
    IN  timed(IF s = "newegg" THEN Newegg_normalize_record(record, now)
              ELSE Sylvane_normalize_record(record, now))

\* normalize_record of the running script
normalize_record(s, record, now) ==
    IF s = "newegg" THEN Newegg_normalize_record(record, now)
    ELSE Sylvane_normalize_record(record, now)

\* normalize_record reads the clock only for processed_at; its value on
\* the records of the input files, tabulated at clock reading 0
normalized_at_0 ==
    [record \in NeweggPool \cup SylvanePool |->
        IF record \in NeweggPool
        THEN Newegg_normalize_record(record, isoformat(0))
        ELSE Sylvane_normalize_record(record, isoformat(0))]

normalized(record, time) ==
    LET stamped(r) ==
            IF r.ok /\ Truthy(r.val)
            THEN Ok([r.val EXCEPT !.processed_at = isoformat(time)])
            ELSE r
    IN  stamped(normalized_at_0[record])

Categories ==
    {category_keywords[k].category : k \in 1..Len(category_keywords)}

NoCounts == [c \in Categories |-> 0]

-----------------------------------------------------------------------------
(* PostgreSQL: the products table and the connection's transaction *)

\* a database in which the script never ran
NoTable == [exists |-> FALSE, unique |-> FALSE, rows |-> << >>, seq |-> 1]

NoTxn == [active |-> FALSE, aborted |-> FALSE, ts |-> 0, view |-> NoTable]

\* psycopg2 opens a transaction at the first statement after connect,
\* commit or rollback; CURRENT_TIMESTAMP is the time of that moment
Begin(t, d, now) ==
    IF t.active THEN t
    ELSE [active |-> TRUE, aborted |-> FALSE, ts |-> now, view |-> d]

\* a faulty handler: the writes of the failed transaction stay
rollback_keeping_writes(d, t) == IF t.active THEN t.view ELSE d

\* conn.rollback(): the transaction's view is dropped; the SERIAL sequence
\* of an existing table keeps the values it handed out
Rollback(d, t) ==
    IF t.active /\ d.exists THEN [d EXCEPT !.seq = t.view.seq] ELSE d

\* conn.commit(): COMMIT of a failed transaction is a ROLLBACK
Commit(d, t) ==
    IF ~t.active THEN d
    ELSE IF t.aborted THEN Rollback(d, t) ELSE t.view

\* price DECIMAL(10, 2): the value rounded to cents, half away from zero
Decimal2(price) ==
    [t |-> "decimal",
     cents |-> (price.num * 200 + price.den) \div (2 * price.den)]

\* json.dumps(value): JSON text of the value
Json(value) == [t |-> "json", of |-> value]

\* processed_at TIMESTAMP: the instant the ISO text names
Timestamp(text) == [t |-> "timestamp", at |-> text.iso]

\* an INTEGER column rounds a float it is handed
SqlInteger(v) ==
    IF v.t = "float"
    THEN PyInt((v.num * 2 + v.den) \div (2 * v.den)) ELSE v

\* a VARCHAR column stores the text of an integer it is handed
SqlText(v) == IF v.t = "int" THEN PyStr(ToString(v.v)) ELSE v

\* the natural key of a normalized record / of a stored row
KeyOf(s, r) == IF s = "newegg" THEN r.title ELSE r.product_name

\* the VALUES list of NeweggDataProcessor.insert_data with the column
\* defaults of create_table_if_not_exists
Newegg_values(record, id, ts) ==
    [id |-> id,
     title |-> record.title,
     category |-> record.category,
     brand |-> record.brand,
     price |-> Decimal2(record.price),
     image_url |-> record.image_url,
     product_link |-> record.product_link,
     amazon_link |-> record.amazon_link,
     item_features |-> Json(record.item_features),
     specs |-> Json(record.specs),
     processed_at |-> Timestamp(record.processed_at),
     created_at |-> ts,
     updated_at |-> ts]

\* a faulty SET list: the price is left out
Newegg_do_update_without_price(row, excluded, ts) ==
    [row EXCEPT !.category = excluded.category,
                !.brand = excluded.brand,
                !.amazon_link = excluded.amazon_link,
                !.specs = excluded.specs,
                !.updated_at = ts]

\* ON CONFLICT (title) DO UPDATE SET ... of NeweggDataProcessor.insert_data
Newegg_do_update(row, excluded, ts) ==
    [row EXCEPT !.category = excluded.category,
                !.brand = excluded.brand,
                !.price = excluded.price,
                !.amazon_link = excluded.amazon_link,
                !.specs = excluded.specs,
                !.updated_at = ts]

\* the VALUES list of SylvaneDataProcessor.insert_data with the column
\* defaults of create_table_if_not_exists
Sylvane_values(record, id, ts) ==
    [id |-> id,
     product_name |-> record.product_name,
     url |-> record.url,
     price |-> Decimal2(record.price),
     image_url |-> record.image_url,
     coverage_area |-> SqlInteger(record.coverage_area),
     cadr_smoke |-> SqlInteger(record.cadr_smoke),
     cadr_pollen |-> SqlInteger(record.cadr_pollen),
     cadr_dust |-> SqlInteger(record.cadr_dust),
     noise_level |-> Json(record.noise_level),
     filter_type |-> record.filter_type,
     fan_speeds |-> SqlText(record.fan_speeds),
     amazon_link |-> record.amazon_link,
     processed_at |-> Timestamp(record.processed_at),
     created_at |-> ts,
     updated_at |-> ts]

\* ON CONFLICT (product_name) DO UPDATE SET ... of
\* SylvaneDataProcessor.insert_data
Sylvane_do_update(row, excluded, ts) ==
    [row EXCEPT !.price = excluded.price,
                !.coverage_area = excluded.coverage_area,
                !.cadr_smoke = excluded.cadr_smoke,
                !.cadr_pollen = excluded.cadr_pollen,
                !.cadr_dust = excluded.cadr_dust,
                !.noise_level = excluded.noise_level,
                !.filter_type = excluded.filter_type,
                !.fan_speeds = excluded.fan_speeds,
                !.amazon_link = excluded.amazon_link,
                !.updated_at = ts]

insert_values(s, record, id, ts) ==
    IF s = "newegg" THEN Newegg_values(record, id, ts)
    ELSE Sylvane_values(record, id, ts)

do_update(s, row, excluded, ts) ==
    IF s = "newegg" THEN Newegg_do_update(row, excluded, ts)
    ELSE Sylvane_do_update(row, excluded, ts)

\* positions of the rows holding a key
RowsWithKey(s, rows, key) ==
    {i \in 1..Len(rows) : KeyOf(s, rows[i]) = key}

\* a UNIQUE constraint cannot be added over rows that share a key
HasDuplicateKeys(s, rows) ==
    \E i, j \in 1..Len(rows) : i < j /\ KeyOf(s, rows[i]) = KeyOf(s, rows[j])

\* the error of INSERT ... ON CONFLICT (key) in a transaction, or "none"
insert_error(t) ==
    CASE t.aborted -> "InFailedSqlTransaction"
      [] ~t.view.exists -> "UndefinedTable"
      [] ~t.view.unique -> "InvalidColumnReference"
      [] OTHER -> "none"

\* a faulty statement: INSERT without the ON CONFLICT clause on a table
\* without the constraint
insert_without_on_conflict(s, view, record, ts) ==
    [view EXCEPT !.seq = @ + 1,
                 !.rows = Append(@, insert_values(s, record, view.seq, ts))]

\* INSERT ... ON CONFLICT (key) DO UPDATE on a table with the constraint:
\* the proposed row takes the next id of the sequence either way
upsert(s, view, record, ts) ==
    LET hit == RowsWithKey(s, view.rows, KeyOf(s, record))
        excluded == insert_values(s, record, view.seq, ts)
    IN  [view EXCEPT
            !.seq = @ + 1,
            !.rows = IF hit = {} THEN Append(@, excluded)
                     ELSE [i \in 1..Len(@) |->
                              IF i \in hit
                              THEN do_update(s, @[i], excluded, ts)
                              ELSE @[i]]]

\* ALTER TABLE ... ADD CONSTRAINT ... UNIQUE (key), unless it exists: the
\* transaction after the statement
add_constraint(s, t) ==
    IF t.aborted \/ t.view.unique THEN t
    ELSE IF HasDuplicateKeys(s, t.view.rows)
         THEN [t EXCEPT !.aborted = TRUE]
         ELSE [t EXCEPT !.view.unique = TRUE]

-----------------------------------------------------------------------------
(* The script: main() of either processor, one step at a time *)

procVars == << raw_data, processed_data, discarded_count, category_count,
               idx, valid_records >>
dbVars == << db, txn, conn >>
callVars == << input, output >>
scrapeVars == << max_pages, page_num, pages_visited, all_products,
                all_links, unique_links, products_data >>

NoFile == [t |-> "none"]

\* what main() may find at input_file
InputFiles(s) ==
    {[state |-> "missing", data |-> << >>],
     [state |-> "malformed", data |-> << >>]}
        \cup {[state |-> "json", data |-> b] : b \in Batches(s, MaxBatch)}

\* load_data with its errors swallowed: main() goes on to process_all
load_data_swallowing_errors ==
    /\ pc = "load_data"
    /\ \E file \in InputFiles(site) :
          CASE file.state = "missing" ->
                 /\ exc' = Exc("FileNotFoundError", "load_data")
                 /\ pc' = "process_all"
                 /\ raw_data' = raw_data
            [] file.state = "malformed" ->
                 /\ exc' = Exc("JSONDecodeError", "load_data")
                 /\ pc' = "process_all"
                 /\ raw_data' = raw_data
            [] OTHER ->
                 /\ raw_data' = file.data
                 /\ pc' = "process_all"
                 /\ exc' = exc
    /\ UNCHANGED << site, scrapeVars,
                    processed_data, discarded_count, category_count,
                    idx, valid_records, json_file, dbVars, clock, runs,
                    callVars >>

\* load_data, called by main(); main() catches what it raises
load_data ==
    /\ pc = "load_data"
    /\ \E file \in InputFiles(site) :
          CASE file.state = "missing" ->
                 /\ exc' = Exc("FileNotFoundError", "load_data")
                 /\ pc' = "failed"
                 /\ raw_data' = raw_data
            [] file.state = "malformed" ->
                 /\ exc' = Exc("JSONDecodeError", "load_data")
                 /\ pc' = "failed"
                 /\ raw_data' = raw_data
            [] OTHER ->
                 /\ raw_data' = file.data
                 /\ pc' = "process_all"
                 /\ exc' = exc
    /\ UNCHANGED << site, scrapeVars,
                    processed_data, discarded_count, category_count,
                    idx, valid_records, json_file, dbVars, clock, runs,
                    callVars >>

\* process_all up to its loop
process_all_start ==
    /\ pc = "process_all"
    /\ valid_records' = << >>
    /\ category_count' = NoCounts
    /\ idx' = 1
    /\ pc' = "process_record"
    /\ UNCHANGED << site, scrapeVars,
                    raw_data, processed_data, discarded_count, exc,
                    json_file, dbVars, clock, runs, callVars >>

\* one iteration of the loop of process_all
process_all_record ==
    /\ pc = "process_record"
    /\ idx <= Len(raw_data)
    /\ \E r \in {normalized(raw_data[idx], clock)} :
          IF ~r.ok
          THEN /\ exc' = Exc(r.exc, "process_all")
               /\ pc' = "failed"
               /\ UNCHANGED << valid_records, category_count,
                               discarded_count, idx >>
          ELSE IF Truthy(r.val)
          THEN /\ valid_records' = Append(valid_records, r.val)
               /\ category_count' =
                     IF site = "newegg"
                     THEN [category_count EXCEPT ![r.val.category] = @ + 1]
                     ELSE category_count
               /\ idx' = idx + 1
               /\ UNCHANGED << discarded_count, exc, pc >>
          ELSE /\ discarded_count' =
                     IF site = "newegg" THEN discarded_count + 1
                     ELSE discarded_count
               /\ idx' = idx + 1
               /\ UNCHANGED << valid_records, category_count, exc, pc >>
    /\ clock' = clock + 1
    /\ UNCHANGED << site, scrapeVars,
                    raw_data, processed_data, json_file, dbVars, runs,
                    callVars >>

\* process_all after its loop, keeping the valid records in reverse order
process_all_finish_reversed ==
    /\ pc = "process_record"
    /\ idx > Len(raw_data)
    /\ processed_data' =
           [i \in 1..Len(valid_records) |->
                valid_records[Len(valid_records) + 1 - i]]
    /\ pc' = "save_to_json"
    /\ UNCHANGED << site, scrapeVars,
                    raw_data, discarded_count, category_count, idx,
                    valid_records, exc, json_file, dbVars, clock, runs,
                    callVars >>

\* process_all after its loop
process_all_finish ==
    /\ pc = "process_record"
    /\ idx > Len(raw_data)
    /\ processed_data' = valid_records
    /\ pc' = "save_to_json"
    /\ UNCHANGED << site, scrapeVars,
                    raw_data, discarded_count, category_count, idx,
                    valid_records, exc, json_file, dbVars, clock, runs,
                    callVars >>

save_to_json ==
    /\ pc = "save_to_json"
    /\ json_file' = Json(processed_data)
    /\ pc' = "connect_db"
    /\ UNCHANGED << site, scrapeVars,
                    procVars, exc, dbVars, clock, runs, callVars >>

\* connect_db, called by save_to_database before its try block
connect_db ==
    /\ pc = "connect_db"
    /\ \E connected \in BOOLEAN :
          IF connected
          THEN conn' = "open" /\ pc' = "create_table" /\ exc' = exc
          ELSE /\ conn' = conn
               /\ pc' = "failed"
               /\ exc' = Exc("OperationalError", "connect_db")
    /\ UNCHANGED << site, scrapeVars,
                    procVars, json_file, db, txn, clock, runs,
                    callVars >>

\* create_table_if_not_exists: CREATE TABLE / INDEX IF NOT EXISTS, for
\* Sylvane the unique constraint in its inner try, then commit; a lost
\* connection raises out of the handler
create_table_if_not_exists ==
    /\ pc = "create_table"
    /\ \E fault \in BOOLEAN :
          IF fault
          THEN /\ conn' = "broken"
               /\ db' = Rollback(db, txn)
               /\ exc' = Exc("OperationalError",
                             "create_table_if_not_exists")
               /\ pc' = "close"
          ELSE LET created == [Begin(txn, db, clock)
                                  EXCEPT !.view.exists = TRUE]
                   checked == IF site = "sylvane"
                              THEN add_constraint(site, created)
                              ELSE created
               IN  /\ db' = Commit(db, checked)
                   /\ pc' = "insert_data"
                   /\ UNCHANGED << conn, exc >>
    /\ txn' = NoTxn
    /\ clock' = clock + 1
    /\ UNCHANGED << site, scrapeVars, procVars, json_file, runs, callVars >>

\* insert_data up to its loop: for Newegg the constraint check and the
\* ALTER TABLE in the inner try, whose failure is only printed
insert_data_start ==
    /\ pc = "insert_data"
    /\ idx' = 1
    /\ pc' = "insert_record"
    /\ IF site = "newegg"
       THEN \E fault \in BOOLEAN :
               IF fault
               THEN conn' = "broken" /\ UNCHANGED << txn, clock >>
               ELSE /\ txn' = add_constraint(site, Begin(txn, db, clock))
                    /\ clock' = clock + 1
                    /\ conn' = conn
       ELSE UNCHANGED << txn, conn, clock >>
    /\ UNCHANGED << site, scrapeVars,
                    raw_data, processed_data, discarded_count,
                    category_count, valid_records, exc, json_file, db, runs,
                    callVars >>

\* one iteration of the loop of insert_data; an error runs the handler:
\* rollback, raise
insert_data_record ==
    /\ pc = "insert_record"
    /\ idx <= Len(processed_data)
    /\ \E fault \in BOOLEAN :
          LET t == Begin(txn, db, clock)
              err == IF fault \/ conn = "broken" THEN "OperationalError"
                     ELSE insert_error(t)
          IN  IF err # "none"
              THEN /\ db' = Rollback(db, t)
                   /\ txn' = NoTxn
                   /\ exc' = Exc(err, "insert_data")
                   /\ pc' = "close"
                   /\ conn' = IF fault THEN "broken" ELSE conn
                   /\ idx' = idx
              ELSE /\ txn' = [t EXCEPT !.view =
                                 upsert(site, t.view, processed_data[idx],
                                        t.ts)]
                   /\ idx' = idx + 1
                   /\ UNCHANGED << db, exc, pc, conn >>
    /\ clock' = IF txn.active THEN clock ELSE clock + 1
    /\ UNCHANGED << site, scrapeVars,
                    raw_data, processed_data, discarded_count,
                    category_count, valid_records, json_file, runs,
                    callVars >>

\* conn.commit() of insert_data
insert_data_commit ==
    /\ pc = "insert_record"
    /\ idx > Len(processed_data)
    /\ \E fault \in BOOLEAN :
          IF fault \/ conn = "broken"
          THEN /\ db' = Rollback(db, txn)
               /\ exc' = Exc("OperationalError", "insert_data")
               /\ pc' = "close"
               /\ conn' = "broken"
          ELSE /\ db' = Commit(db, txn)
               /\ pc' = "query_stats"
               /\ UNCHANGED << exc, conn >>
    /\ txn' = NoTxn
    /\ UNCHANGED << site, scrapeVars,
                    procVars, json_file, clock, runs, callVars >>

\* the SELECT COUNT(*) of save_to_database
save_to_database_stats ==
    /\ pc = "query_stats"
    /\ \E fault \in BOOLEAN :
          IF fault
          THEN /\ conn' = "broken"
               /\ exc' = Exc("OperationalError", "save_to_database")
               /\ UNCHANGED << txn, clock >>
          ELSE /\ txn' = Begin(txn, db, clock)
               /\ clock' = clock + 1
               /\ UNCHANGED << conn, exc >>
    /\ pc' = "close"
    /\ UNCHANGED << site, scrapeVars,
                    procVars, json_file, db, runs, callVars >>

\* save_to_database with conn.close() after the try block and not in a
\* finally block: an exception leaves the connection as it is
save_to_database_close_on_success ==
    /\ pc = "close"
    /\ conn' = IF exc = NoExc THEN "closed" ELSE conn
    /\ db' = Rollback(db, txn)
    /\ txn' = NoTxn
    /\ pc' = IF exc = NoExc THEN "done" ELSE "failed"
    /\ UNCHANGED << site, scrapeVars,
                    procVars, exc, json_file, clock, runs, callVars >>

\* the finally block of save_to_database, then main()'s print_summary or
\* its except clause
save_to_database_close ==
    /\ pc = "close"
    /\ conn' = "closed"
    /\ db' = Rollback(db, txn)
    /\ txn' = NoTxn
    /\ pc' = IF exc = NoExc THEN "done" ELSE "failed"
    /\ UNCHANGED << site, scrapeVars,
                    procVars, exc, json_file, clock, runs, callVars >>

\* the script is started again: a new processor, the same files and table
main_again ==
    /\ pc \in {"done", "failed"}
    /\ runs < MaxRuns
    /\ runs' = runs + 1
    /\ pc' = "load_data"
    /\ raw_data' = << >>
    /\ processed_data' = << >>
    /\ discarded_count' = 0
    /\ category_count' = NoCounts
    /\ idx' = 0
    /\ valid_records' = << >>
    /\ exc' = NoExc
    /\ conn' = "none"
    /\ UNCHANGED << site, scrapeVars, json_file, db, txn, clock, callVars >>

InitProcessor ==
    /\ site \in Sites
    /\ raw_data = << >>
    /\ processed_data = << >>
    /\ discarded_count = 0
    /\ category_count = NoCounts
    /\ idx = 0
    /\ valid_records = << >>
    /\ exc = NoExc
    /\ json_file = NoFile
    /\ txn = NoTxn
    /\ conn = "none"
    /\ clock = 1
    /\ runs = 1
    /\ max_pages = 0
    /\ page_num = 0
    /\ pages_visited = 0
    /\ all_products = << >>
    /\ all_links = << >>
    /\ unique_links = << >>
    /\ products_data = << >>

\* the first run of the script against a database it never touched
Init ==
    /\ InitProcessor
    /\ pc = "load_data"
    /\ db = NoTable
    /\ input = NoCall
    /\ output = NoCall

Next ==
    \/ load_data
    \/ process_all_start
    \/ process_all_record
    \/ process_all_finish
    \/ save_to_json
    \/ connect_db
    \/ create_table_if_not_exists
    \/ insert_data_start
    \/ insert_data_record
    \/ insert_data_commit
    \/ save_to_database_stats
    \/ save_to_database_close
    \/ main_again

Spec == Init /\ [][Next]_vars

\* tables left by an earlier deployment: created with or without the
\* unique constraint and filled by plain INSERTs of normalized records
LegacyTables(s) ==
    LET accepted(b) ==
            \A i \in 1..Len(b) :
                normalized(b[i], 0).ok /\ Truthy(normalized(b[i], 0).val)
        stored(b) ==
            [i \in 1..Len(b) |->
                insert_values(s, normalized(b[i], 0).val, i, 0)]
        table(u, rows) ==
            [exists |-> TRUE, unique |-> u, rows |-> rows,
             seq |-> Len(rows) + 1]
    IN  {t \in {table(u, stored(b)) :
                    u \in BOOLEAN,
                    b \in {a \in Batches(s, MaxBatch) : accepted(a)}} :
            t.unique => ~HasDuplicateKeys(s, t.rows)}

\* the script is run against a table that exists already
InitLegacy ==
    /\ InitProcessor
    /\ pc = "load_data"
    /\ db \in LegacyTables(site)
    /\ input = NoCall
    /\ output = NoCall

SpecLegacy == InitLegacy /\ [][Next]_vars

-----------------------------------------------------------------------------
(* One NeweggDataProcessor instance driven by a caller other than main():  *)
(* load_data and process_all called again on the same instance             *)

MaxCalls == 3      \* calls of load_data and process_all after the first ones

\* the caller calls process_all again on the instance, on the batch it holds
process_all_again ==
    /\ pc = "save_to_json"
    /\ runs < MaxCalls
    /\ runs' = runs + 1
    /\ pc' = "process_all"
    /\ UNCHANGED << site, scrapeVars,
                    procVars, exc, json_file, dbVars, clock, callVars >>

\* the caller calls load_data again on the instance, after process_all
\* returned or after a call raised
load_data_again ==
    /\ pc \in {"save_to_json", "failed"}
    /\ runs < MaxCalls
    /\ runs' = runs + 1
    /\ pc' = "load_data"
    /\ exc' = NoExc
    /\ UNCHANGED << site, scrapeVars,
                    procVars, json_file, dbVars, clock, callVars >>

InitInstance ==
    /\ InitProcessor
    /\ site = "newegg"
    /\ pc = "load_data"
    /\ db = NoTable
    /\ input = NoCall
    /\ output = NoCall

NextInstance ==
    \/ load_data
    \/ process_all_start
    \/ process_all_record
    \/ process_all_finish
    \/ process_all_again
    \/ load_data_again

SpecInstance == InitInstance /\ [][NextInstance]_vars

-----------------------------------------------------------------------------
(* Direct calls of the pure functions on one raw record *)

Inputs(s) == IF s = "newegg" THEN NeweggInputs ELSE SylvaneInputs

\* extract_price of the running script
extract_price(s, price_str) ==
    IF s = "newegg" THEN Newegg_extract_price(price_str)
    ELSE Sylvane_extract_price(price_str)

\* the raw spec fields of a Sylvane record
SpecFields ==
    {"coverage_area", "cadr_smoke", "cadr_pollen", "cadr_dust",
     "noise_level", "filter_type", "fan_speeds"}

\* the Sylvane extractor normalize_record applies to a raw spec field
extract_field(field, value) ==
    CASE field = "coverage_area" -> extract_coverage_area(value)
      [] field = "cadr_smoke" -> extract_cadr_smoke(value)
      [] field = "cadr_pollen" -> extract_cadr_pollen(value)
      [] field = "cadr_dust" -> extract_cadr_dust(value)
      [] field = "noise_level" -> extract_noise_level(value)
      [] field = "filter_type" -> extract_filter_type(value)
      [] field = "fan_speeds" -> extract_fan_speeds(value)

Returned(fn, arg, res) == [fn |-> fn, arg |-> arg, res |-> res]

call_extract_price ==
    /\ pc = "call"
    /\ output' = Returned("extract_price", input.price,
                          extract_price(site, input.price))
    /\ pc' = "returned"
    /\ UNCHANGED << site, scrapeVars,
                    procVars, exc, json_file, dbVars, clock, runs,
                    input >>

call_detect_category ==
    /\ pc = "call"
    /\ site = "newegg"
    /\ output' = Returned("detect_category", input.title,
                          Ok(PyStr(detect_category(input.title))))
    /\ pc' = "returned"
    /\ UNCHANGED << site, scrapeVars,
                    procVars, exc, json_file, dbVars, clock, runs,
                    input >>

\* one of the Newegg parse_*_specs on the title, or one of the Sylvane
\* extract_* on its raw field
call_field_extractor ==
    /\ pc = "call"
    /\ IF site = "newegg"
       THEN \E category \in ExtractorCategories :
               output' = Returned(category, input.title,
                                  Ok(specs_for(category, input.title)))
       ELSE \E field \in SpecFields :
               output' = Returned(field, input[field],
                                  extract_field(field, input[field]))
    /\ pc' = "returned"
    /\ UNCHANGED << site, scrapeVars,
                    procVars, exc, json_file, dbVars, clock, runs,
                    input >>

call_normalize_record ==
    /\ pc = "call"
    /\ output' = Returned("normalize_record", input,
                          normalize_record(site, input, isoformat(clock)))
    /\ clock' = clock + 1
    /\ pc' = "returned"
    /\ UNCHANGED << site, scrapeVars,
                    procVars, exc, json_file, dbVars, runs, input >>

InitCalls ==
    /\ InitProcessor
    /\ pc = "call"
    /\ db = NoTable
    /\ input \in Inputs(site)
    /\ output = NoCall

NextCalls ==
    \/ call_extract_price
    \/ call_detect_category
    \/ call_field_extractor
    \/ call_normalize_record

SpecCalls == InitCalls /\ [][NextCalls]_vars

-----------------------------------------------------------------------------
(* The scrapers' pagination loops:                                         *)
(*   src/newegg/newegg_scraper.py    (scrape_page, scrape_category)        *)
(*   src/sylvane/sylvane_scraper.py  (SylvaneScraper.scrape_all_pages)     *)
(* What the site shows and which browser calls fail is chosen freely at    *)
(* every step.                                                             *)

MAX_PAGES == 10                  \* newegg_scraper.py
SylvaneScraper_MAX_PAGES == 3    \* SylvaneScraper.MAX_PAGES
BASE_URL == "https://www.sylvane.com"

InSeq(x, seq) == \E i \in 1..Len(seq) : seq[i] = x

\* what a list page of Newegg shows: whether it loads, and what
\* parse_product_item made of each of its item cells (None: failed to parse)
NeweggProduct == [title |-> "GeForce RTX 4060"]
NeweggPages ==
    [loaded : BOOLEAN,
     items : {<< >>, << NeweggProduct >>, << None >>,
              << None, NeweggProduct >>}]

RECURSIVE parsed_products(_)
parsed_products(items) ==
    IF items = << >> THEN << >>
    ELSE IF Head(items) = None THEN parsed_products(Tail(items))
    ELSE << Head(items) >> \o parsed_products(Tail(items))

\* scrape_page: the products of the page, [] when the page fails to load
scrape_page(page) ==
    IF page.loaded THEN parsed_products(page.items) ELSE << >>

\* scrape_category opens its page and enters the loop at page 1
scrape_category_start ==
    /\ site = "newegg"
    /\ pc = "scraper"
    /\ all_products' = << >>
    /\ page_num' = 1
    /\ pages_visited' = 0
    /\ pc' = "scrape_page"
    /\ UNCHANGED << site, procVars, exc, json_file, dbVars, clock, runs,
                    callVars, max_pages, all_links, unique_links,
                    products_data >>

\* one round of the for loop of scrape_category; count, enabled and click
\* are the outcomes of next_button.count(), is_enabled() and click()
scrape_category_page ==
    /\ site = "newegg"
    /\ pc = "scrape_page"
    /\ page_num <= MAX_PAGES
    /\ \E page \in NeweggPages,
          count \in {Ok(0), Ok(1), Raise("Error")},
          enabled \in {Ok(TRUE), Ok(FALSE), Raise("Error")},
          click \in {Ok(None), Raise("TimeoutError")} :
          LET has_next == count.ok /\ count.val > 0
              is_enabled == has_next /\ enabled.ok /\ enabled.val
          IN  /\ all_products' = all_products \o scrape_page(page)
              /\ pages_visited' = pages_visited + 1
              /\ IF ~count.ok
                 THEN pc' = "page_close" /\ page_num' = page_num
                 ELSE IF ~has_next \/ ~is_enabled \/ page_num >= MAX_PAGES
                 THEN pc' = "page_close" /\ page_num' = page_num
                 ELSE IF ~click.ok
                 THEN pc' = "page_close" /\ page_num' = page_num
                 ELSE pc' = "scrape_page" /\ page_num' = page_num + 1
    /\ exc' = NoExc
    /\ UNCHANGED << site, procVars, json_file, dbVars, clock, runs,
                    callVars, max_pages, all_links, unique_links,
                    products_data >>

\* the finally block of scrape_category, and its return
scrape_category_close ==
    /\ site = "newegg"
    /\ \/ pc = "page_close"
       \/ pc = "scrape_page" /\ page_num > MAX_PAGES
    /\ pc' = "scraped"
    /\ UNCHANGED << site, procVars, exc, json_file, dbVars, clock, runs,
                    callVars, scrapeVars >>

\* SylvaneScraper.__init__
SylvaneScraper_init ==
    /\ site = "sylvane"
    /\ pc = "scraper"
    /\ max_pages' \in 0..SylvaneScraper_MAX_PAGES
    /\ products_data' = << >>
    /\ pc' = "scrape_all_pages"
    /\ UNCHANGED << site, procVars, exc, json_file, dbVars, clock, runs,
                    callVars, page_num, pages_visited, all_products,
                    all_links, unique_links >>

\* the href attributes of the elements a list page of Sylvane shows;
\* "" stands for an element whose attribute is missing or cannot be read
Hrefs ==
    {"", "/products/alen-45i", "/products/levoit-400s",
     "https://www.sylvane.com/products/alen-45i", "/pages/about"}
SylvanePages ==
    {Raise("TimeoutError")}
      \cup {Ok(<< >>)}
      \cup {Ok(<< a >>) : a \in Hrefs}
      \cup {Ok(<< a, b >>) : a \in Hrefs, b \in Hrefs}

RECURSIVE product_links_from(_, _)
product_links_from(hrefs, product_links) ==
    IF hrefs = << >> THEN product_links
    ELSE LET href == Head(hrefs)
             full_url == IF StartsWith(href, "http") THEN href
                         ELSE BASE_URL \o href
         IN  IF /\ href # ""
                /\ Contains(href, "/products/")
                /\ ~InSeq(full_url, product_links)
             THEN product_links_from(Tail(hrefs),
                                     Append(product_links, full_url))
             ELSE product_links_from(Tail(hrefs), product_links)

get_product_links_from_page(page) ==
    IF page.ok THEN product_links_from(page.val, << >>) ELSE << >>

\* what the query for the Next button gives: no element, an element with
\* its disabled and class attributes, or a failing call
NextButtons ==
    {Raise("Error"), Ok(None)}
      \cup {Ok([t |-> "element", disabled |-> d, class |-> c]) :
              d \in {None, PyStr("")},
              c \in {None, PyStr("pagination__next"),
                     PyStr("pagination__next Disabled")}}

has_next_page(button) ==
    IF ~button.ok THEN FALSE
    ELSE IF button.val = None THEN FALSE
    ELSE LET is_disabled == button.val.disabled
             class_list == IF button.val.class = None THEN ""
                           ELSE button.val.class.s
         IN  is_disabled = None /\ ~Contains(Lower(class_list), "disabled")

go_to_next_page(button, click) ==
    IF ~button.ok THEN FALSE
    ELSE IF button.val = None THEN FALSE
    ELSE click.ok

\* scrape_all_pages opens the start page and enters the loop at page 1
scrape_all_pages_start ==
    /\ site = "sylvane"
    /\ pc = "scrape_all_pages"
    /\ \E goto \in {Ok(None), Raise("TimeoutError")} :
          IF goto.ok
          THEN /\ all_links' = << >>
               /\ page_num' = 1
               /\ pages_visited' = 0
               /\ pc' = "list_page"
               /\ exc' = NoExc
          ELSE /\ exc' = Exc(goto.exc, "scrape_all_pages")
               /\ pc' = "failed"
               /\ UNCHANGED << all_links, page_num, pages_visited >>
    /\ UNCHANGED << site, procVars, json_file, dbVars, clock, runs,
                    callVars, max_pages, all_products, unique_links,
                    products_data >>

\* one round of the while loop of scrape_all_pages
scrape_all_pages_page ==
    /\ site = "sylvane"
    /\ pc = "list_page"
    /\ IF page_num <= max_pages
       THEN \E page \in SylvanePages, button \in NextButtons,
               button_again \in NextButtons,
               click \in {Ok(None), Raise("TimeoutError")} :
               /\ all_links' = all_links \o get_product_links_from_page(page)
               /\ pages_visited' = pages_visited + 1
               /\ IF page_num < max_pages /\ has_next_page(button)
                  THEN IF go_to_next_page(button_again, click)
                       THEN pc' = "list_page" /\ page_num' = page_num + 1
                       ELSE pc' = "unique_links" /\ page_num' = page_num
                  ELSE pc' = "unique_links" /\ page_num' = page_num
       ELSE /\ pc' = "unique_links"
            /\ UNCHANGED << all_links, pages_visited, page_num >>
    /\ UNCHANGED << site, procVars, exc, json_file, dbVars, clock, runs,
                    callVars, max_pages, all_products, unique_links,
                    products_data >>

\* list(links): every element, repeated or not
fromkeys_keeping_repeats(links, keys) == keys \o links

\* list(dict.fromkeys(links)): the first occurrence of each element
RECURSIVE fromkeys(_, _)
fromkeys(links, keys) ==
    IF links = << >> THEN keys
    ELSE IF InSeq(Head(links), keys) THEN fromkeys(Tail(links), keys)
    ELSE fromkeys(Tail(links), Append(keys, Head(links)))

scrape_all_pages_unique ==
    /\ site = "sylvane"
    /\ pc = "unique_links"
    /\ unique_links' = fromkeys(all_links, << >>)
    /\ idx' = 0
    /\ pc' = "scrape_product_detail"
    /\ UNCHANGED << site, raw_data, processed_data, discarded_count,
                    category_count, valid_records, exc, json_file, dbVars,
                    clock, runs, callVars, max_pages, page_num,
                    pages_visited, all_products, all_links, products_data >>

\* scrape_product_detail returns a dict either way: with the fields of the
\* product, or with the error that its try block caught
scrape_product_detail(product_url, goto) ==
    IF goto.ok THEN [url |-> product_url, error |-> "none"]
    ELSE [url |-> product_url, error |-> goto.exc]

\* one round of the for loop over unique_links, and the return after it
scrape_all_pages_detail ==
    /\ site = "sylvane"
    /\ pc = "scrape_product_detail"
    /\ IF idx < Len(unique_links)
       THEN \E goto \in {Ok(None), Raise("TimeoutError")} :
               /\ products_data' =
                    Append(products_data,
                           scrape_product_detail(unique_links[idx + 1], goto))
               /\ idx' = idx + 1
               /\ pc' = pc
       ELSE /\ pc' = "scraped"
            /\ UNCHANGED << products_data, idx >>
    /\ UNCHANGED << site, raw_data, processed_data, discarded_count,
                    category_count, valid_records, exc, json_file, dbVars,
                    clock, runs, callVars, max_pages, page_num,
                    pages_visited, all_products, all_links, unique_links >>

InitScraper ==
    /\ InitProcessor
    /\ pc = "scraper"
    /\ db = NoTable
    /\ input = NoCall
    /\ output = NoCall

NextScraper ==
    \/ scrape_category_start
    \/ scrape_category_page
    \/ scrape_category_close
    \/ SylvaneScraper_init
    \/ scrape_all_pages_start
    \/ scrape_all_pages_page
    \/ scrape_all_pages_unique
    \/ scrape_all_pages_detail

SpecScraper == InitScraper /\ [][NextScraper]_vars

\* the scheduler of asyncio runs the one coroutine until it returns
FairScraper == SpecScraper /\ WF_vars(NextScraper)

-----------------------------------------------------------------------------

(* Properties of the price normalizer and the record normalizer *)

\* the table the statements of the open transaction see
TableInView == IF txn.active THEN txn.view ELSE db

\* C1: every record normalize_record returned, process_all kept and
\* insert_data wrote has a price that is present and strictly greater
\* than 0: no row of the table has a null or zero price
C1_StoredPricePositive ==
    /\ \A i \in 1..Len(valid_records) :
          valid_records[i].price.t = "float" /\ valid_records[i].price.num > 0
    /\ \A i \in 1..Len(processed_data) :
          processed_data[i].price.t = "float"
              /\ processed_data[i].price.num > 0
    /\ \A i \in 1..Len(TableInView.rows) :
          TableInView.rows[i].price.cents > 0
    /\ \A i \in 1..Len(db.rows) : db.rows[i].price.cents > 0

\* C2: for every price text without a digit character extract_price
\* returns None without raising, and normalize_record discards the record
C2_NoDigitPriceIsNone ==
    /\ (output.fn = "extract_price" /\ ~HasDigit(output.arg))
           => output.res = Ok(None)
    /\ (output.fn = "normalize_record" /\ ~HasDigit(output.arg.price))
           => output.res = Ok(None)

\* C3: process_all runs to completion over every input: no failure while
\* normalizing a record leaves the loop, every record read ends accepted
\* or discarded
C3_ProcessAllCompletes ==
    /\ exc.in # "process_all"
    /\ (pc = "process_record" /\ site = "newegg") =>
           idx - 1 = Len(valid_records) + discarded_count

\* C4: every field extractor is total: on every text it returns a value
\* without raising, and on a text in which nothing can match the field,
\* or every entry of the mapping returned, is None
C4_FieldExtractorsTotal ==
    output.fn \in ExtractorCategories \cup SpecFields =>
        /\ output.res.ok
        /\ output.arg = "" =>
               \/ output.res.val = None
               \/ /\ output.res.val.t = "dict"
                  /\ \A f \in DOMAIN output.res.val \ {"t"} :
                        output.res.val[f] = None

-----------------------------------------------------------------------------
(* Properties of the persistence step *)

Keys(s, rows) == {KeyOf(s, rows[i]) : i \in 1..Len(rows)}

\* the columns insert_data computes from the texts of the raw record
DerivedColumns(s) ==
    IF s = "newegg"
    THEN {"category", "brand", "price", "amazon_link", "specs"}
    ELSE {"price", "coverage_area", "cadr_smoke", "cadr_pollen",
          "cadr_dust", "noise_level", "filter_type", "fan_speeds",
          "amazon_link"}

DerivedAgree(s, row, record) ==
    \A c \in DerivedColumns(s) : row[c] = insert_values(s, record, 0, 0)[c]

\* the record persisted last among those with a key
LastWithKey(s, records, key) ==
    records[CHOOSE i \in 1..Len(records) :
               /\ KeyOf(s, records[i]) = key
               /\ \A j \in (i + 1)..Len(records) : KeyOf(s, records[j]) # key]

\* one row per key, each record's key stored with the derived fields of
\* the last record with that key
OneRowPerKey(s, rows, records) ==
    /\ ~HasDuplicateKeys(s, rows)
    /\ \A i \in 1..Len(records) :
          \E j \in 1..Len(rows) :
              /\ KeyOf(s, rows[j]) = KeyOf(s, records[i])
              /\ DerivedAgree(s, rows[j],
                              LastWithKey(s, records, KeyOf(s, records[i])))

\* C5: after any runs of save_to_database the table holds at most one row
\* per natural key: a record whose key is stored updates that row in place
\* without changing the row count, and the row's derived fields are those
\* of the record persisted last with that key
C5_OneRowPerKey ==
    /\ ~HasDuplicateKeys(site, db.rows)
    /\ pc = "insert_record" =>
           /\ OneRowPerKey(site, TableInView.rows,
                           SubSeq(processed_data, 1, idx - 1))
           /\ Len(TableInView.rows) =
                  Cardinality(Keys(site, db.rows)
                      \cup Keys(site, SubSeq(processed_data, 1, idx - 1)))
           /\ \A i \in 1..Len(db.rows) :
                  /\ TableInView.rows[i].id = db.rows[i].id
                  /\ KeyOf(site, TableInView.rows[i]) = KeyOf(site, db.rows[i])
                  /\ KeyOf(site, db.rows[i])
                         \notin Keys(site, SubSeq(processed_data, 1, idx - 1))
                     => TableInView.rows[i] = db.rows[i]
    /\ pc = "query_stats" => OneRowPerKey(site, db.rows, processed_data)

C5_UpdatedInPlace ==
    /\ runs = 2
    /\ pc = "query_stats"
    /\ Len(processed_data) = 2
    /\ KeyOf(site, processed_data[1]) = KeyOf(site, processed_data[2])
    /\ processed_data[1].price # processed_data[2].price
    /\ Len(db.rows) = 1
    /\ db.rows[1].created_at < db.rows[1].updated_at

\* what other connections see of the table
Visible(d) == [exists |-> d.exists, unique |-> d.unique, rows |-> d.rows]

\* C6: if a statement fails while insert_data writes a batch, the
\* transaction is rolled back and the exception is raised to the caller:
\* none of the batch's rows becomes visible; a batch is committed entirely
\* or not at all
C6_BatchAtomic ==
    [][/\ pc \in {"insert_data", "insert_record"} =>
           \/ /\ pc' \in {"insert_data", "insert_record"}
              /\ exc' = exc
              /\ Visible(db') = Visible(db)
           \/ /\ pc' = "close"
              /\ exc'.in = "insert_data"
              /\ ~txn'.active
              /\ Visible(db') = Visible(db)
           \/ /\ pc' = "query_stats"
              /\ exc' = NoExc
              /\ ~txn'.active
              /\ \A i \in 1..Len(processed_data) :
                    \E j \in 1..Len(db'.rows) :
                        /\ KeyOf(site, db'.rows[j])
                               = KeyOf(site, processed_data[i])
                        /\ db'.rows[j].updated_at = txn.ts
       /\ (pc = "close" /\ exc.in = "insert_data") =>
              (pc' = "failed" /\ exc' = exc /\ Visible(db') = Visible(db))
      ]_vars

C6_RolledBackAfterWrites ==
    /\ pc = "close"
    /\ exc.in = "insert_data"
    /\ idx > 1
    /\ db.exists
    /\ db.rows = << >>

\* C7: an insert that conflicts on the natural key updates the stored row:
\* every derived column takes the new record's value, created_at keeps its
\* value and updated_at is refreshed
C7_ConflictUpdatesRow ==
    [][(pc = "insert_record" /\ idx' = idx + 1) =>
           \A i \in RowsWithKey(site, TableInView.rows,
                                KeyOf(site, processed_data[idx])) :
               /\ Len(TableInView'.rows) = Len(TableInView.rows)
               /\ DerivedAgree(site, TableInView'.rows[i],
                               processed_data[idx])
               /\ TableInView'.rows[i].id = TableInView.rows[i].id
               /\ TableInView'.rows[i].created_at
                      = TableInView.rows[i].created_at
               /\ TableInView'.rows[i].updated_at = txn'.ts
               /\ TableInView.rows[i].updated_at <= txn'.ts
      ]_vars

C7_RowUpdatedOnConflict ==
    /\ pc = "insert_record"
    /\ idx > 1
    /\ txn.active
    /\ \E i \in 1..Len(db.rows) :
          /\ KeyOf(site, db.rows[i]) = KeyOf(site, processed_data[idx - 1])
          /\ txn.view.rows[i].price # db.rows[i].price
          /\ txn.view.rows[i].price = Decimal2(processed_data[idx - 1].price)
          /\ txn.view.rows[i].created_at = db.rows[i].created_at
          /\ txn.view.rows[i].created_at < txn.view.rows[i].updated_at

\* C8: a collision on the unique key during persistence is resolved by
\* updating the stored row and never raises, whatever the table was
\* before: when insert_data raises at a record whose key is stored, the
\* connection was lost
C8_CollisionNeverRaises ==
    (/\ pc = "close"
     /\ exc.in = "insert_data"
     /\ idx <= Len(processed_data)
     /\ KeyOf(site, processed_data[idx]) \in Keys(site, db.rows))
        => exc.type = "OperationalError"

-----------------------------------------------------------------------------
(* Properties of the category classifier *)

\* the order in which the categories are declared
DeclaredOrder ==
    << "Laptop", "Gaming PC", "CPU", "Motherboard", "Memory", "SSD",
       "Graphics Card", "Storage", "Power Supply", "Case", "Cooler",
       "Camera", "Smart Home", "Networking" >>

\* the keyword occurs in the title, letter case ignored
OccursIgnoringCase(title, keyword) ==
    \E i \in 1..(Len(title) - Len(keyword) + 1) :
        \A j \in 1..Len(keyword) :
            LowerChar(Char(title, i + j - 1)) = LowerChar(Char(keyword, j))

\* a keyword of the category occurs in the title
Matches(category, title) ==
    \E k \in 1..Len(category_keywords) :
        /\ category_keywords[k].category = category
        /\ \E j \in 1..Len(category_keywords[k].keywords) :
              OccursIgnoringCase(title, category_keywords[k].keywords[j])

\* C9: detect_category returns the first category in the declared order
\* that has a keyword occurring, letter case ignored, in the title; a
\* title with a Laptop keyword and a Gaming PC keyword is a Laptop
C9_FirstDeclaredCategory ==
    output.fn = "detect_category" =>
        /\ \A k \in 1..Len(DeclaredOrder) :
              (/\ Matches(DeclaredOrder[k], output.arg)
               /\ \A j \in 1..(k - 1) : ~Matches(DeclaredOrder[j], output.arg))
                  => output.res = Ok(PyStr(DeclaredOrder[k]))
        /\ (Matches("Laptop", output.arg) /\ Matches("Gaming PC", output.arg))
               => output.res = Ok(PyStr("Laptop"))

C9_LaptopBeforeGamingPC ==
    /\ output.fn = "detect_category"
    /\ Matches("Laptop", output.arg)
    /\ Matches("Gaming PC", output.arg)
    /\ output.res = Ok(PyStr("Laptop"))

\* C10: detect_category gives every title exactly one category and never
\* fails; a title in which no keyword of any category occurs is "Other"
C10_OtherWhenNoKeyword ==
    output.fn = "detect_category" =>
        /\ output.res.ok
        /\ output.res.val \in {PyStr(c) : c \in Categories}
        /\ (\A c \in Categories : ~Matches(c, output.arg))
               => output.res = Ok(PyStr("Other"))

C10_TitleWithoutKeyword ==
    /\ output.fn = "detect_category"
    /\ output.arg # ""
    /\ \A c \in Categories : ~Matches(c, output.arg)
    /\ output.res = Ok(PyStr("Other"))

-----------------------------------------------------------------------------
(* Properties of the price normalizer *)

\* the price text in which extract_price looks for numbers
CleanedPriceText(s, price_str) ==
    IF s = "newegg" THEN price_str
    ELSE Strip(Replace(Replace(Replace(Replace(price_str, "\n", " "),
                                       "\r", " "),
                               "Sale price", ""),
                       "Regular price", ""))

\* C11: extract_price decides on the first numeric candidate of the
\* cleaned price text alone: no candidate gives None, a first candidate
\* that is a number gives that number when it is strictly positive and
\* None when it is not, whatever follows it
C11_FirstCandidateDecides ==
    output.fn = "extract_price" =>
        LET numbers == FindAllNumbers(CleanedPriceText(site, output.arg), 1)
            decided(first) ==
                first.ok => output.res = IF first.val.num > 0 THEN first
                                         ELSE Ok(None)
        IN  IF numbers = << >> THEN output.res = Ok(None)
            ELSE decided(FloatOf(Replace(numbers[1], ",", "")))

\* a currency symbol, then digits with thousands separators that start with
\* a digit, then a decimal point at position dot and digits after it
IsSeparatedDecimal(s, dot) ==
    /\ 3 <= dot /\ dot < Len(s)
    /\ Char(s, 1) = "$"
    /\ Char(s, 2) \in Digits
    /\ \A q \in 2..(dot - 1) : Char(s, q) \in DigitOrComma
    /\ Char(s, dot) = "."
    /\ \A q \in (dot + 1)..Len(s) : Char(s, q) \in Digits

\* C12: for a price text made of a currency symbol and a number with
\* thousands separators and a decimal part, extract_price returns the
\* number with the symbol and the separators removed (None when that number
\* is zero); "$1,234.50" gives 1234.50
C12_SeparatorsRemoved ==
    output.fn = "extract_price" =>
        /\ \A dot \in 1..Len(output.arg) :
              IsSeparatedDecimal(output.arg, dot) =>
                  /\ output.res.ok
                  /\ IF DigitsToNat(output.arg, 0) = 0
                     THEN output.res.val = None
                     ELSE /\ output.res.val.t = "float"
                          /\ output.res.val.num
                                 * Pow10(Len(output.arg) - dot)
                             = DigitsToNat(output.arg, 0) * output.res.val.den
        /\ output.arg = "$1,234.50" => output.res = Ok(PyFloat(12345, 10))

C12_ThousandsAndCents ==
    /\ output.fn = "extract_price"
    /\ output.arg = "$1,234.50"
    /\ IsSeparatedDecimal(output.arg, 7)
    /\ output.res.ok
    /\ output.res.val.num * 100 = 123450 * output.res.val.den

-----------------------------------------------------------------------------
(* Properties of the attribute extractors *)

\* where the number ends that starts at position a of the title (digits,
\* then possibly a point and digits), if TB follows it after optional
\* whitespace; 0 when no such number starts at a
TbValueEnd(title, a) ==
    LET point(r) == IF r <= Len(title) /\ Char(title, r) = "."
                    THEN RunEnd(title, r + 1, Digits) ELSE r
        before_tb(e) ==
            IF OccursAt(title, "TB", RunEnd(title, e, Whitespace))
            THEN e ELSE 0
    IN  IF a > Len(title) \/ Char(title, a) \notin Digits THEN 0
        ELSE before_tb(point(RunEnd(title, a, Digits)))

\* the leftmost position of the title at which a value followed by TB
\* starts; 0 when there is none
TbValueStart(title) ==
    IF \E a \in 1..Len(title) : TbValueEnd(title, a) > 0
    THEN CHOOSE a \in 1..Len(title) :
             /\ TbValueEnd(title, a) > 0
             /\ \A q \in 1..(a - 1) : TbValueEnd(title, q) = 0
    ELSE 0

\* the value title[a..e-1] times 1024, truncated to an integer
TimesKibi(title, a, e) ==
    LET point == RunEnd(title, a, Digits)
        decimals == IF point < e THEN e - point - 1 ELSE 0
    IN  (DigitsToNat(SubSeq(title, a, e - 1), 0) * 1024) \div Pow10(decimals)

\* C13: when the title holds a possibly fractional value followed by TB,
\* the capacity_gb of parse_ssd_specs is that value times 1024 truncated to
\* an integer, whatever GB quantity the title holds and whatever digits
\* follow the decimal point; "7.68TB" gives 7864 and never 68
C13_TerabytesFirst ==
    output.fn = "SSD" =>
        LET stated(a) ==
                a > 0 => output.res.val.capacity_gb
                             = PyInt(TimesKibi(output.arg, a,
                                               TbValueEnd(output.arg, a)))
        IN  /\ output.res.ok
            /\ stated(TbValueStart(output.arg))
            /\ Contains(output.arg, "7.68TB") =>
                   /\ output.res.val.capacity_gb = PyInt(7864)
                   /\ output.res.val.capacity_gb # PyInt(68)

C13_FractionalTerabytes ==
    /\ output.fn = "SSD"
    /\ Contains(output.arg, "7.68TB")
    /\ output.res.val.capacity_gb = PyInt(7864)

\* position a starts a maximal run of digits that is followed, after
\* optional whitespace, by W or w and then whitespace, a comma, a point, a
\* closing parenthesis or the end of the title
IsWattageAt(title, a) ==
    LET unit(w) ==
            /\ w <= Len(title)
            /\ Char(title, w) \in {"W", "w"}
            /\ (w = Len(title)
                \/ Char(title, w + 1) \in Whitespace \cup {",", ".", ")"})
    IN  /\ Char(title, a) \in Digits
        /\ (a = 1 \/ Char(title, a - 1) \notin Digits)
        /\ unit(RunEnd(title, RunEnd(title, a, Digits), Whitespace))

\* the wattages stated in the title
StatedWattages(title) ==
    {DigitsToNat(SubSeq(title, a, RunEnd(title, a, Digits) - 1), 0) :
         a \in {q \in 1..Len(title) : IsWattageAt(title, q)}}

\* C14: the power attribute of parse_cpu_specs is None or "<n>W" for a
\* wattage n stated in the title with 35 <= n <= 350; a title whose stated
\* wattages all lie outside [35, 350] has power None, and a title whose
\* only stated wattage is 65 has power "65W"
C14_PowerIsStatedWattage ==
    output.fn = "CPU" =>
        /\ output.res.ok
        /\ \/ output.res.val.power = None
           \/ \E n \in StatedWattages(output.arg) :
                 /\ 35 <= n /\ n <= 350
                 /\ output.res.val.power = PyStr(ToString(n) \o "W")
        /\ (\A n \in StatedWattages(output.arg) : n < 35 \/ n > 350)
               => output.res.val.power = None
        /\ StatedWattages(output.arg) = {65}
               => output.res.val.power = PyStr("65W")

\* position a starts a maximal run of digits and commas
IsNumberAt(text, a) ==
    /\ Char(text, a) \in DigitOrComma
    /\ (a = 1 \/ Char(text, a - 1) \notin DigitOrComma)

\* the numbers in the text: its maximal runs of digits and commas that
\* hold a digit, read with the commas as thousands separators
NumbersIn(text) ==
    {DigitsToNat(SubSeq(text, a, RunEnd(text, a, DigitOrComma) - 1), 0) :
         a \in {q \in 1..Len(text) :
                    /\ IsNumberAt(text, q)
                    /\ HasDigit(SubSeq(text, q,
                                       RunEnd(text, q, DigitOrComma) - 1))}}

\* C15: extract_coverage_area returns None or an integer in [50, 3000]:
\* the numbers of the coverage text outside that range are rejected, and
\* the largest number in range is returned when there is one
C15_LargestInRange ==
    output.fn = "coverage_area" =>
        LET valid == {n \in NumbersIn(output.arg) : 50 <= n /\ n <= 3000}
        IN  /\ output.res.ok
            /\ \/ output.res.val = None
               \/ /\ output.res.val.t = "int"
                  /\ 50 <= output.res.val.v /\ output.res.val.v <= 3000
            /\ IF valid = {} THEN output.res.val = None
               ELSE /\ output.res.val.t = "int"
                    /\ output.res.val.v \in valid
                    /\ \A n \in valid : n <= output.res.val.v

-----------------------------------------------------------------------------
(* Properties of the specs mapping *)

\* the attribute names of each category with a dedicated extractor
AttributeNames(category) ==
    CASE category = "CPU" ->
             {"brand", "series", "model", "cores", "speed", "socket", "power"}
      [] category = "Motherboard" ->
             {"brand", "chipset", "form_factor", "socket", "memory_type"}
      [] category = "Memory" -> {"brand", "capacity_gb", "speed_mhz", "type"}
      [] category = "SSD" ->
             {"brand", "capacity_gb", "interface", "read_speed",
              "form_factor"}
      [] category = "Laptop" ->
             {"brand", "cpu", "gpu", "ram", "storage", "screen_size"}
      [] category = "Gaming PC" -> {"brand", "cpu", "gpu", "ram", "storage"}

\* the mapping has exactly the attributes of the category, each None or a
\* text or an integer
HasAttributesOf(category, specs) ==
    /\ DOMAIN specs = AttributeNames(category) \cup {"t"}
    /\ specs.t = "dict"
    /\ \A a \in AttributeNames(category) :
          specs[a] = None \/ specs[a].t \in {"str", "int"}

\* C16: for every category with a dedicated extractor the specs mapping
\* has the same fixed attribute names for every title, as returned by the
\* extractor and as stored in the normalized record; an attribute that was
\* not found is present with the value None
C16_FixedAttributeNames ==
    /\ output.fn \in ExtractorCategories =>
           /\ output.res.ok
           /\ HasAttributesOf(output.fn, output.res.val)
    /\ (/\ output.fn = "normalize_record"
        /\ site = "newegg"
        /\ output.res.ok
        /\ Truthy(output.res.val)) =>
           (output.res.val.category \in ExtractorCategories =>
                HasAttributesOf(output.res.val.category,
                                output.res.val.specs))

C16_AttributeNotFoundIsNone ==
    /\ output.fn = "SSD"
    /\ output.arg = "Solidigm 7.68TB SSD"
    /\ output.res.val.capacity_gb = PyInt(7864)
    /\ output.res.val.read_speed = None
    /\ output.res.val.interface = None
    /\ "read_speed" \in DOMAIN output.res.val

\* the categories without a dedicated extractor
CategoriesWithoutExtractor ==
    {"Graphics Card", "Storage", "Power Supply", "Case", "Cooler", "Camera",
     "Smart Home", "Networking", "Other"}

\* C17: a record that normalize_record classifies into a category without
\* a dedicated extractor is returned with an empty specs mapping and a
\* None brand; every category is one with an extractor or one of these
C17_EmptySpecsWithoutExtractor ==
    (/\ output.fn = "normalize_record"
     /\ site = "newegg"
     /\ output.res.ok
     /\ Truthy(output.res.val)) =>
        /\ output.res.val.category
               \in ExtractorCategories \cup CategoriesWithoutExtractor
        /\ output.res.val.category \in CategoriesWithoutExtractor =>
               /\ output.res.val.specs = [t |-> "dict"]
               /\ DOMAIN output.res.val.specs = {"t"}
               /\ output.res.val.brand = None

C17_CameraWithoutSpecs ==
    /\ output.fn = "normalize_record"
    /\ site = "newegg"
    /\ output.arg.title = "Logitech C920 Webcam"
    /\ output.res.ok
    /\ output.res.val.category = "Camera"
    /\ output.res.val.specs = [t |-> "dict"]
    /\ output.res.val.brand = None

-----------------------------------------------------------------------------
(* Properties of the record normalizer and of process_all *)

\* two results of normalize_record are equal but for processed_at
EqualButProcessedAt(first, second) ==
    IF first.ok /\ second.ok /\ Truthy(first.val) /\ Truthy(second.val)
    THEN [first.val EXCEPT !.processed_at = None]
             = [second.val EXCEPT !.processed_at = None]
    ELSE first = second

HasPositivePrice(s, record) ==
    LET positive(price) == price.ok /\ price.val # None /\ price.val.num > 0
    IN  positive(extract_price(s, record.price))

\* the raw records with a positive price, in their order
WithPositivePrice(s, records) ==
    LET priced(record) == HasPositivePrice(s, record)
    IN  SelectSeq(records, priced)

\* the output record is the normalization of the raw record
NormalizedFrom(s, out, record) ==
    /\ KeyOf(s, out) = KeyOf(s, record)
    /\ out.price = extract_price(s, record.price).val
    /\ IF s = "newegg"
       THEN out.original_data = record /\ out.image_url = record.img_url
       ELSE out.url = record.url /\ out.image_url = record.image_url

\* the sum of the counts of the categories in a set
RECURSIVE SumOfCounts(_, _)
SumOfCounts(counts, cs) ==
    IF cs = {} THEN 0
    ELSE LET c == CHOOSE x \in cs : TRUE
         IN  counts[c] + SumOfCounts(counts, cs \ {c})

\* C19: when process_all returns, processed_data is the subsequence of
\* raw_data made of the records with a positive price, one output record
\* per such record in the same order, and (Newegg) the count of each
\* category is the number of output records of that category, so that the
\* counts sum to the number of accepted records
C19_AcceptedSubsequence ==
    pc = "save_to_json" =>
        LET kept == WithPositivePrice(site, raw_data)
        IN  /\ Len(processed_data) = Len(kept)
            /\ \A i \in 1..Len(kept) :
                  NormalizedFrom(site, processed_data[i], kept[i])
            /\ site = "newegg" =>
                   /\ SumOfCounts(category_count, Categories)
                          = Len(processed_data)
                   /\ \A c \in Categories :
                          category_count[c]
                              = Cardinality({i \in 1..Len(processed_data) :
                                     processed_data[i].category = c})

C19_DiscardedThenAccepted ==
    /\ pc = "save_to_json"
    /\ Len(raw_data) = 2
    /\ ~HasPositivePrice(site, raw_data[1])
    /\ HasPositivePrice(site, raw_data[2])
    /\ Len(processed_data) = 1
    /\ NormalizedFrom(site, processed_data[1], raw_data[2])

\* C20: when process_all returns, the processor's discard count is the
\* number of raw records of the batch whose price did not parse to a
\* positive number, and processed_data holds a record for none of them
C20_DiscardsCounted ==
    pc = "save_to_json" =>
        LET kept == WithPositivePrice(site, raw_data)
        IN  /\ discarded_count = Len(raw_data) - Len(kept)
            /\ Len(processed_data) = Len(kept)
            /\ \A i \in 1..Len(processed_data) :
                  \E j \in 1..Len(raw_data) :
                      /\ HasPositivePrice(site, raw_data[j])
                      /\ NormalizedFrom(site, processed_data[i], raw_data[j])

-----------------------------------------------------------------------------
(* Properties of main() *)

\* C21: when the input file is missing or is not valid JSON, load_data
\* raises before any record is normalized, and the run ends there: no
\* record is normalized, the JSON output is not written and the database
\* is not touched until main() is started again
C21_LoadFailureStopsRun ==
    [][/\ (pc = "load_data" /\ exc'.in = "load_data") =>
              /\ exc'.type \in {"FileNotFoundError", "JSONDecodeError"}
              /\ pc' = "failed"
              /\ raw_data' = << >>
              /\ valid_records' = << >> /\ processed_data' = << >>
              /\ idx' = 0
              /\ clock' = clock
              /\ json_file' = json_file
              /\ db' = db /\ txn' = txn /\ conn' = "none"
       /\ (pc = "failed" /\ exc.in = "load_data") =>
              /\ pc' = "load_data"
              /\ runs' = runs + 1
              /\ clock' = clock
              /\ json_file' = json_file
              /\ db' = db /\ txn' = txn
      ]_vars

C21_MalformedInputAfterGoodRun ==
    /\ pc = "failed"
    /\ exc = Exc("JSONDecodeError", "load_data")
    /\ runs = 2
    /\ json_file # NoFile
    /\ db.rows # << >>
    /\ processed_data = << >>
    /\ ~txn.active

\* process_all has returned from the batch of the one Ryzen record
RyzenBatchProcessed ==
    /\ site = "newegg"
    /\ pc = "save_to_json"
    /\ Len(raw_data) = 1
    /\ raw_data[1].title = RyzenTitle
    /\ raw_data[1].price = "$159.99"

\* one accepted record: category CPU, brand AMD, price 159.99, the given
\* specs mapping, and no discard
RyzenAcceptedWith(specs) ==
    /\ Len(processed_data) = 1
    /\ processed_data[1].title = RyzenTitle
    /\ processed_data[1].category = "CPU"
    /\ processed_data[1].brand = PyStr("AMD")
    /\ processed_data[1].price = PyFloat(15999, 100)
    /\ processed_data[1].specs = specs
    /\ discarded_count = 0
    /\ category_count["CPU"] = 1

\* C22 (amended): the batch of the one Ryzen 5 5600X record at "$159.99"
\* yields exactly one accepted record with category CPU, brand AMD, price
\* 159.99 and no discard; its specs hold series "Ryzen 5", model "5600X",
\* cores 6, speed "3.7 GHz", socket "AM4", power "65W" and, as a seventh
\* attribute, brand "AMD"
C22_RyzenScenario ==
    RyzenBatchProcessed =>
        RyzenAcceptedWith([t |-> "dict", brand |-> PyStr("AMD"),
                           series |-> PyStr("Ryzen 5"),
                           model |-> PyStr("5600X"), cores |-> PyInt(6),
                           speed |-> PyStr("3.7 GHz"),
                           socket |-> PyStr("AM4"), power |-> PyStr("65W")])

\* C22 as stated: the specs of the accepted record are equal to the
\* mapping of the six attributes series, model, cores, speed, socket, power
C22_SpecsOfSixAttributes ==
    RyzenBatchProcessed =>
        RyzenAcceptedWith([t |-> "dict", series |-> PyStr("Ryzen 5"),
                           model |-> PyStr("5600X"), cores |-> PyInt(6),
                           speed |-> PyStr("3.7 GHz"),
                           socket |-> PyStr("AM4"), power |-> PyStr("65W")])

C22_RyzenAccepted ==
    /\ RyzenBatchProcessed
    /\ Len(processed_data) = 1
    /\ processed_data[1].specs.model = PyStr("5600X")
    /\ discarded_count = 0

-----------------------------------------------------------------------------
(* Properties of the derived search link *)

LinkHead == "https://www.amazon.com/s?k="
LinkTail == "&tag=YOUR_TAG-20"

\* the url-encoded keywords of a link: what stands between head and tail
QueryOf(link) == SubSeq(link, Len(LinkHead) + 1, Len(link) - Len(LinkTail))

\* https://www.amazon.com/s?k=<url-encoded keywords>&tag=<tag>
HasLinkForm(link) ==
    /\ Len(link) >= Len(LinkHead) + Len(LinkTail)
    /\ SubSeq(link, 1, Len(LinkHead)) = LinkHead
    /\ SubSeq(link, Len(link) - Len(LinkTail) + 1, Len(link)) = LinkTail
    /\ \A q \in 1..Len(QueryOf(link)) :
          Char(QueryOf(link), q) \in QuoteSafe \cup {"+", "%"}

\* the tokens of an encoded query: its parts between the + signs
RECURSIVE TokensOf(_)
TokensOf(query) ==
    IF query = "" THEN << >>
    ELSE LET e == RunEnd(query, 1, {Char(query, q) : q \in 1..Len(query)}
                                       \ {"+"})
         IN  << SubSeq(query, 1, e - 1) >>
                 \o TokensOf(SubSeq(query, e + 1, Len(query)))

\* the known brands of the Newegg link, in their order
KnownBrands ==
    << "AMD", "Intel", "ASUS", "GIGABYTE", "MSI", "ASRock", "CORSAIR",
       "SAMSUNG", "eufy", "Arlo", "Ubiquiti", "Reolink", "Kasa", "Philips",
       "Eve" >>

\* the index of the first known brand that occurs in the title, 0 if none
KnownBrandIn(title) ==
    IF \E k \in 1..Len(KnownBrands) : OccursIgnoringCase(title, KnownBrands[k])
    THEN CHOOSE k \in 1..Len(KnownBrands) :
             /\ OccursIgnoringCase(title, KnownBrands[k])
             /\ \A j \in 1..(k - 1) :
                   ~OccursIgnoringCase(title, KnownBrands[j])
    ELSE 0

\* four or five digits followed by at most four letters
IsModelDesignator(token) ==
    LET digits == RunEnd(token, 1, Digits) - 1
    IN  /\ digits \in {4, 5}
        /\ Len(token) - digits <= 4
        /\ \A q \in (digits + 1)..Len(token) : Char(token, q) \in Letters

HasModelDesignator(title) ==
    \E i \in 1..(Len(title) - 3) :
        \A q \in i..(i + 3) : Char(title, q) \in Digits

Least(a, b) == IF a < b THEN a ELSE b

\* the tokens of a Newegg link for a title of a category
NeweggLinkTokens(title, category, tokens, brand) ==
    /\ Len(tokens) <= 4
    /\ brand > 0 => (tokens # << >> /\ tokens[1] = KnownBrands[brand])
    /\ (category = "CPU" /\ brand > 0) =>
           /\ Len(tokens) = IF HasModelDesignator(title) THEN 2 ELSE 1
           /\ Len(tokens) = 2 =>
                  /\ IsModelDesignator(tokens[2])
                  /\ Contains(title, tokens[2])
    /\ category # "CPU" =>
           LET words == Split(title)
               first == IF brand > 0 THEN 1 ELSE 0
           IN  /\ Len(tokens) = Least(4, first + Least(5, Len(words)))
               /\ \A i \in (first + 1)..Len(tokens) :
                     tokens[i] = quote_plus(words[i - first])

\* C23: the derived link has the form
\* https://www.amazon.com/s?k=<url-encoded keywords>&tag=<tag> and
\* generating it never fails; the Newegg query holds at most 4 tokens, the
\* first known brand occurring in the title being the first of them, for
\* category CPU followed by the matched model designator alone and for the
\* other categories by the title's leading tokens; the Sylvane query holds
\* at most 5 tokens, the leading tokens of the lower-cased name
C23_BoundedSearchLink ==
    (/\ output.fn = "normalize_record"
     /\ output.res.ok
     /\ Truthy(output.res.val)) =>
        LET link == output.res.val.amazon_link
            tokens == TokensOf(QueryOf(link))
        IN  /\ HasLinkForm(link)
            /\ site = "newegg" =>
                   NeweggLinkTokens(output.arg.title,
                                    output.res.val.category, tokens,
                                    KnownBrandIn(output.arg.title))
            /\ site = "sylvane" =>
                   /\ Len(tokens) <= 5
                   /\ \A i \in 1..Len(tokens) :
                         Contains(Lower(output.arg.product_name), tokens[i])

C23_BrandThenModel ==
    /\ output.fn = "normalize_record"
    /\ site = "newegg"
    /\ output.arg.title = "Ryzen 5 5600X AMD Processor"
    /\ output.res.ok
    /\ output.res.val.category = "CPU"
    /\ TokensOf(QueryOf(output.res.val.amazon_link)) = << "AMD", "5600X" >>

-----------------------------------------------------------------------------
(* Properties of normalize_record as a state machine of the record *)

\* the record left pending for discarded: nothing is returned for it
Discarded(res) == res = Ok(None)

\* the record left pending for accepted: a normalized record is returned
Accepted(res) == res.ok /\ res.val # None /\ res.val.t = "dict"

\* C24: normalize_record takes every raw record out of pending by exactly
\* one of two transitions, decided by the price normalizer, which runs
\* first: to discarded when there is no positive price, whatever the other
\* fields hold, and to accepted otherwise, with the price, the
\* classification, the extracted fields and the link in the record
C24_TwoOutcomes ==
    output.fn = "normalize_record" =>
        /\ Discarded(output.res) \/ Accepted(output.res)
        /\ Discarded(output.res) <=> ~HasPositivePrice(site, output.arg)
        /\ Accepted(output.res) =>
               /\ output.res.val.price
                      = extract_price(site, output.arg.price).val
               /\ output.res.val.amazon_link # ""
               /\ site = "newegg" =>
                      /\ output.res.val.category
                             = detect_category(output.arg.title)
                      /\ output.res.val.specs
                             = specs_for(output.res.val.category,
                                         output.arg.title)

-----------------------------------------------------------------------------
(* Properties of the brand attribute *)

\* the candidate brands of each category extractor, in their order
BrandCandidates(category) ==
    CASE category = "CPU" -> << "AMD", "Intel" >>
      [] category = "Motherboard" ->
             << "ASUS", "GIGABYTE", "MSI", "ASRock", "MSI" >>
      [] category = "Memory" ->
             << "CORSAIR", "G.SKILL", "Kingston", "Crucial", "Patriot" >>
      [] category = "SSD" ->
             << "SAMSUNG", "Western Digital", "WD", "Crucial", "Patriot",
                "Kingston", "Sabrent", "Solidigm" >>
      [] category = "Laptop" ->
             << "ASUS", "MSI", "Acer", "Lenovo", "Dell", "HP", "Razer",
                "GIGABYTE", "XIDAX" >>
      [] category = "Gaming PC" ->
             << "ABS", "iBUYPOWER", "CYBERPOWERPC", "Skytech", "CLX",
                "Xidax" >>

\* the first candidate that occurs in the title, letter case ignored;
\* None when no candidate occurs
FirstCandidateIn(candidates, title) ==
    IF \E k \in 1..Len(candidates) : OccursIgnoringCase(title, candidates[k])
    THEN PyStr(candidates[
             CHOOSE k \in 1..Len(candidates) :
                 /\ OccursIgnoringCase(title, candidates[k])
                 /\ \A j \in 1..(k - 1) :
                       ~OccursIgnoringCase(title, candidates[j])])
    ELSE None

\* C25: the brand attribute of every category extractor is the first
\* entry of the extractor's candidate list that occurs in the title as a
\* substring, letter case ignored, wherever it stands in the title, and
\* None when no candidate occurs
C25_FirstCandidateBrand ==
    output.fn \in ExtractorCategories =>
        output.res.val.brand
            = FirstCandidateIn(BrandCandidates(output.fn), output.arg)

-----------------------------------------------------------------------------
(* Properties of the processor's counters *)

\* C26: on one Newegg processor instance, whenever process_all has
\* returned, after whatever calls of load_data and process_all,
\* len(processed_data) + discarded_count = len(raw_data)
C26_CountsAddUp ==
    (site = "newegg" /\ pc = "save_to_json") =>
        Len(processed_data) + discarded_count = Len(raw_data)

-----------------------------------------------------------------------------
(* Properties of the database connection *)

\* the positions of save_to_database after connect_db returned
InSaveToDatabase ==
    {"create_table", "insert_data", "insert_record", "query_stats", "close"}

\* C27: a connection opened by save_to_database is closed exactly once, by
\* the finally block, before the call returns or raises, whether table
\* creation, the batch insert or the statistics query failed or not; when
\* connect_db fails nothing is opened and neither table creation nor an
\* insert is attempted
C27_ConnectionClosedOnce ==
    [][/\ pc \in InSaveToDatabase <=> conn \in {"open", "broken"}
       /\ conn \in {"open", "broken"} =>
              conn' \in {"open", "broken", "closed"}
       /\ (conn' = "closed" /\ conn # "closed") =>
              /\ pc = "close"
              /\ pc' = IF exc = NoExc THEN "done" ELSE "failed"
       /\ (pc \in InSaveToDatabase /\ pc' \notin InSaveToDatabase) =>
              (conn' = "closed" /\ ~txn'.active)
       /\ conn = "closed" =>
              /\ pc \in {"done", "failed"}
              /\ conn' = "none" /\ runs' = runs + 1
       /\ (pc = "connect_db" /\ conn' # "open") =>
              /\ conn' = "none"
              /\ pc' = "failed"
              /\ exc' = Exc("OperationalError", "connect_db")
              /\ db' = db /\ txn' = txn
       /\ (pc = "failed" /\ exc.in = "connect_db") =>
              (pc' = "load_data" /\ db' = db /\ txn' = txn)
      ]_vars

C27_ClosedAfterFailedInsert ==
    /\ pc = "failed"
    /\ exc.in = "insert_data"
    /\ conn = "closed"
    /\ ~txn.active

-----------------------------------------------------------------------------
(* Properties of the scrapers' pagination loops *)

\* the configured maximum number of list pages of the scraper that runs
PageLimit == IF site = "newegg" THEN MAX_PAGES ELSE max_pages

InPaginationLoop == pc \in {"scrape_page", "list_page"}

\* the loop has read no more list pages than the configured maximum
PagesWithinLimit == pages_visited <= PageLimit

\* a round after which the loop goes on has moved to the next page number,
\* which is within the maximum: the loop ends after at most PageLimit rounds
LoopAdvances ==
    (InPaginationLoop /\ InPaginationLoop') =>
        (page_num' = page_num + 1 /\ page_num' <= PageLimit)

\* the call has not raised to its caller
NothingRaised == pc # "failed" /\ exc = NoExc

FirstIndex(links, link) ==
    CHOOSE i \in 1..Len(links) :
        links[i] = link /\ \A j \in 1..(i - 1) : links[j] # link

\* the product pages fetched so far are distinct links of the list pages,
\* fetched in the order in which the list pages showed them first, and when
\* the call returns every link has been fetched
FetchedInFirstSeenOrder ==
    /\ \A a \in 1..Len(products_data) :
          /\ InSeq(products_data[a].url, all_links)
          /\ \A b \in (a + 1)..Len(products_data) :
                /\ products_data[a].url # products_data[b].url
                /\ FirstIndex(all_links, products_data[a].url)
                     < FirstIndex(all_links, products_data[b].url)
    /\ pc = "scraped" =>
          \A i \in 1..Len(all_links) :
             \E a \in 1..Len(products_data) :
                products_data[a].url = all_links[i]

\* the scrapers return: under the scheduling of the one coroutine the call
\* reaches its return or raises
ScraperReturns == <>(pc \in {"scraped", "failed"})

\* the only exception that leaves a scraper's call is the one of loading the
\* start page of Sylvane, which scrape_all_pages does before its loop
RaisedOnlyByStartPage ==
    ~NothingRaised' =>
        /\ site = "sylvane"
        /\ pc = "scrape_all_pages"
        /\ pc' = "failed"
        /\ exc' = Exc("TimeoutError", "scrape_all_pages")
        /\ UNCHANGED << pages_visited, all_links, products_data >>

-----------------------------------------------------------------------------
(* Properties of the motherboard and gaming PC extractors *)

\* C29: parse_motherboard_specs gives form_factor "mATX" for a title that
\* contains "mATX" or "Micro ATX", "ITX" for a title that contains "ITX"
\* and not "ATX", and "ATX" only for a title that contains "ATX" and
\* neither "mATX" nor "Micro ATX"
C29_FormFactorChain ==
    output.fn = "Motherboard" =>
        LET title == output.arg
            form_factor == output.res.val.form_factor
            micro == Contains(title, "mATX") \/ Contains(title, "Micro ATX")
        IN  /\ micro => form_factor = PyStr("mATX")
            /\ (Contains(title, "ITX") /\ ~Contains(title, "ATX"))
                  => form_factor = PyStr("ITX")
            /\ form_factor = PyStr("ATX")
                  => (Contains(title, "ATX") /\ ~micro)

\* text has the form "<digits> <GB|TB> SSD", the digits and the unit being
\* text of the title (the unit in the letter case of the title)
IsStorageQuantity(text, title) ==
    LET words == Split(text)
    IN  /\ Len(words) = 3
        /\ text = words[1] \o " " \o words[2] \o " SSD"
        /\ words[1] # ""
        /\ \A k \in 1..Len(words[1]) : Char(words[1], k) \in Digits
        /\ Lower(words[2]) \in {"gb", "tb"}
        /\ Contains(title, words[1])
        /\ Contains(title, words[2])

\* C30: for every title the storage attribute of parse_gaming_pc_specs is
\* None or a string "<digits> <GB|TB> SSD" whose number and unit are text of
\* the title; a title that mentions NVMe without such a quantity gives no
\* storage value made of capture groups that did not take part in the match
C30_StorageQuantityOrNone ==
    output.fn = "Gaming PC" =>
        LET storage == output.res.val.storage
        IN  \/ storage = None
            \/ /\ storage.t = "str"
               /\ storage.s # "None None SSD"
               /\ IsStorageQuantity(storage.s, output.arg)

====
